---- MODULE Spec2Model ----
(***************************************************************************)
(* IT asset manager: the relational store (categories, locations,          *)
(* suppliers, inventory items, purchases, location history) and the        *)
(* request handlers of server/src/handlers that read and write it.         *)
(*                                                                         *)
(* A table is a function from the ids of its rows to the rows.  Every      *)
(* handler is one action: the handlers are async functions that run to     *)
(* completion one request at a time.  The timestamps created_at and        *)
(* updated_at take the wall clock and are not part of the state.           *)
(*                                                                         *)
(* Money: a JavaScript number is modelled in thousandths (mills); a        *)
(* numeric(12,2) column holds hundredths (cents).  Writing a number to     *)
(* such a column rounds it (ToNumeric2), reading it back gives the         *)
(* rounded amount (ParseFloat).                                            *)
(***************************************************************************)
EXTENDS Integers, FiniteSets, Sequences, TLC

VARIABLES categories, locations, suppliers, items, purchases, history,
          users, sessions, seq, last, ops, calls, client

tables == <<categories, locations, suppliers, items, purchases, history>>
\* the accounts: users by id, sessions by token
accounts == <<users, sessions>>
vars == <<categories, locations, suppliers, items, purchases, history,
          users, sessions, seq, last, ops, calls, client>>

(***************************************************************************)
(* Values                                                                  *)
(***************************************************************************)
\* SQL NULL in a text column / an omitted (undefined) text field of an input
Null == "null"
Undefined == "undefined"
\* SQL NULL in an integer foreign key; serial ids start at 1
NullId == 0
\* an omitted (undefined) numeric field of an input
UndefinedNum == -1

transferStatusEnum == {"pending", "in_transit", "completed", "cancelled"}
itemConditionEnum == {"excellent", "good", "fair", "poor", "damaged"}

\* number -> numeric(12,2): the store rounds to two decimals, half away from 0
ToNumeric2(mills) == (mills + 5) \div 10
\* numeric(12,2) -> number: parseFloat of the stored text
ParseFloat(cents) == cents * 10

(***************************************************************************)
(* Store primitives                                                        *)
(***************************************************************************)
Put(table, id, row) ==
    [i \in DOMAIN table \cup {id} |-> IF i = id THEN row ELSE table[i]]

Remove(table, id) == [i \in DOMAIN table \ {id} |-> table[i]]

EmptyTable == [i \in {} |-> 0]

\* mutant of SetText: the stored value wins over the supplied one
SetText_KeepsStored(new, old) == old

\* mutant of SetText: a field left undefined is written all the same
SetText_WritesUndefined(new, old) == new

\* value written by .set(): a field left undefined keeps the stored value
SetText(new, old) == IF new = Undefined THEN old ELSE new
SetNum(new, old) == IF new = UndefinedNum THEN old ELSE new

(***************************************************************************)
(* Foreign keys and unique constraints of the schema                       *)
(***************************************************************************)
\* inventory_items.category_id references categories.id
CategoryReferenced(id) == \E i \in DOMAIN items : items[i].category_id = id

\* mutant of LocationReferenced: only location_history is constrained
LocationReferenced_ByHistoryOnly(id) ==
    \/ \E h \in DOMAIN history : history[h].from_location_id = id
    \/ \E h \in DOMAIN history : history[h].to_location_id = id

\* inventory_items.location_id, location_history.from_location_id and
\* location_history.to_location_id reference locations.id
LocationReferenced(id) ==
    \/ \E i \in DOMAIN items : items[i].location_id = id
    \/ \E h \in DOMAIN history : history[h].from_location_id = id
    \/ \E h \in DOMAIN history : history[h].to_location_id = id

\* mutant of SupplierReferenced: the constraint is not enforced
SupplierReferenced_Never(id) == FALSE

\* purchases.supplier_id references suppliers.id
SupplierReferenced(id) == \E p \in DOMAIN purchases : purchases[p].supplier_id = id

\* mutant of ItemReferenced: only purchases is constrained
ItemReferenced_ByPurchasesOnly(id) ==
    \E p \in DOMAIN purchases : purchases[p].item_id = id

\* purchases.item_id and location_history.item_id reference inventory_items.id
ItemReferenced(id) ==
    \/ \E p \in DOMAIN purchases : purchases[p].item_id = id
    \/ \E h \in DOMAIN history : history[h].item_id = id

\* mutant of ItemCodeTaken: the unique constraint is not enforced
ItemCodeTaken_Never(code, except) == FALSE

\* inventory_items.item_code is unique
ItemCodeTaken(code, except) ==
    \E i \in DOMAIN items \ {except} : items[i].item_code = code

(***************************************************************************)
(* What a handler call leaves behind for its caller                        *)
(***************************************************************************)
NoError == [kind |-> "none", entity |-> "none", id |-> 0]
NoRow == [absent |-> TRUE]

\* new Error(`<entity> with ID <id> does not exist`) / `... not found`
DoesNotExist(entity, id) == [kind |-> "does_not_exist", entity |-> entity, id |-> id]
NotFound(entity, id) == [kind |-> "not_found", entity |-> entity, id |-> id]
\* an error of the store, rethrown by the handler's catch block
ForeignKeyViolation(entity, id) == [kind |-> "foreign_key", entity |-> entity, id |-> id]
UniqueViolation(entity, id) == [kind |-> "unique", entity |-> entity, id |-> id]

\* the handler returned: ret is a delete's boolean, id the returned row's id
Returns(op, input, ret, id, current) ==
    last' = [op |-> op, input |-> input, ok |-> TRUE, err |-> NoError,
             ret |-> ret, id |-> id, current |-> current]

\* the handler threw before any write
Throws(op, input, err) ==
    /\ last' = [op |-> op, input |-> input, ok |-> FALSE, err |-> err,
                ret |-> FALSE, id |-> 0, current |-> NoRow]
    /\ UNCHANGED <<tables, seq>>

(***************************************************************************)
(* handlers/purchases.ts                                                   *)
(***************************************************************************)
\* mutant of createPurchase: the supplier is not looked up before the insert
createPurchase_SupplierNotVerified(input) ==
    LET id == seq.purchases
    IN  IF input.item_id \notin DOMAIN items
        THEN Throws("createPurchase", input, DoesNotExist("Inventory item", input.item_id))
        ELSE /\ purchases' = Put(purchases, id,
                    [item_id |-> input.item_id,
                     supplier_id |-> input.supplier_id,
                     quantity |-> input.quantity,
                     unit_price |-> ToNumeric2(input.unit_price),
                     total_price |-> ToNumeric2(input.quantity * input.unit_price),
                     purchase_date |-> input.purchase_date,
                     notes |-> input.notes])
             /\ seq' = [seq EXCEPT !.purchases = id + 1]
             /\ Returns("createPurchase", input, FALSE, id, NoRow)
             /\ UNCHANGED <<categories, locations, suppliers, items, history>>

createPurchase(input) ==
    LET totalPrice == input.quantity * input.unit_price
        id == seq.purchases
    IN  IF input.item_id \notin DOMAIN items
        THEN Throws("createPurchase", input, DoesNotExist("Inventory item", input.item_id))
        ELSE IF input.supplier_id \notin DOMAIN suppliers
        THEN Throws("createPurchase", input, DoesNotExist("Supplier", input.supplier_id))
        ELSE /\ purchases' = Put(purchases, id,
                    [item_id |-> input.item_id,
                     supplier_id |-> input.supplier_id,
                     quantity |-> input.quantity,
                     unit_price |-> ToNumeric2(input.unit_price),
                     total_price |-> ToNumeric2(totalPrice),
                     purchase_date |-> input.purchase_date,
                     notes |-> input.notes])
             /\ seq' = [seq EXCEPT !.purchases = id + 1]
             /\ Returns("createPurchase", input, FALSE, id, NoRow)
             /\ UNCHANGED <<categories, locations, suppliers, items, history>>

\* the row updatePurchase writes over currentPurchase
UpdatedPurchase(input, currentPurchase) ==
    LET quantity == IF input.quantity # UndefinedNum
                    THEN input.quantity ELSE currentPurchase.quantity
        unitPrice == IF input.unit_price # UndefinedNum
                     THEN input.unit_price ELSE ParseFloat(currentPurchase.unit_price)
        totalPrice == quantity * unitPrice
    IN  [item_id |-> SetNum(input.item_id, currentPurchase.item_id),
         supplier_id |-> SetNum(input.supplier_id, currentPurchase.supplier_id),
         quantity |-> SetNum(input.quantity, currentPurchase.quantity),
         unit_price |-> IF input.unit_price # UndefinedNum
                        THEN ToNumeric2(input.unit_price)
                        ELSE currentPurchase.unit_price,
         purchase_date |-> SetNum(input.purchase_date, currentPurchase.purchase_date),
         notes |-> SetText(input.notes, currentPurchase.notes),
         total_price |-> IF input.quantity # UndefinedNum \/ input.unit_price # UndefinedNum
                         THEN ToNumeric2(totalPrice)
                         ELSE currentPurchase.total_price]

updatePurchase(input) ==
    IF input.id \notin DOMAIN purchases
    THEN Throws("updatePurchase", input, DoesNotExist("Purchase", input.id))
    ELSE IF input.item_id # UndefinedNum /\ input.item_id \notin DOMAIN items
    THEN Throws("updatePurchase", input, DoesNotExist("Inventory item", input.item_id))
    ELSE IF input.supplier_id # UndefinedNum /\ input.supplier_id \notin DOMAIN suppliers
    THEN Throws("updatePurchase", input, DoesNotExist("Supplier", input.supplier_id))
    ELSE /\ purchases' = Put(purchases, input.id,
                             UpdatedPurchase(input, purchases[input.id]))
         /\ Returns("updatePurchase", input, FALSE, input.id, purchases[input.id])
         /\ UNCHANGED <<categories, locations, suppliers, items, history, seq>>

\* deletePurchase that also takes the purchased quantity off the item's stock
deletePurchase_TakesStockBack(id) ==
    IF id \notin DOMAIN purchases
    THEN /\ Returns("deletePurchase", [id |-> id], FALSE, 0, NoRow)
         /\ UNCHANGED <<tables, seq>>
    ELSE /\ purchases' = Remove(purchases, id)
         /\ items' = [items EXCEPT ![purchases[id].item_id].quantity =
                                       @ - purchases[id].quantity]
         /\ Returns("deletePurchase", [id |-> id], TRUE, 0, NoRow)
         /\ UNCHANGED <<categories, locations, suppliers, history, seq>>

deletePurchase(id) ==
    IF id \notin DOMAIN purchases
    THEN /\ Returns("deletePurchase", [id |-> id], FALSE, 0, NoRow)
         /\ UNCHANGED <<tables, seq>>
    ELSE /\ purchases' = Remove(purchases, id)
         /\ Returns("deletePurchase", [id |-> id], TRUE, 0, NoRow)
         /\ UNCHANGED <<categories, locations, suppliers, items, history, seq>>

(***************************************************************************)
(* handlers/locations.ts                                                   *)
(***************************************************************************)
createLocation(input) ==
    LET id == seq.locations
    IN  /\ locations' = Put(locations, id,
               [name |-> input.name,
                branch_code |-> input.branch_code,
                address |-> input.address])
        /\ seq' = [seq EXCEPT !.locations = id + 1]
        /\ Returns("createLocation", input, FALSE, id, NoRow)
        /\ UNCHANGED <<categories, suppliers, items, purchases, history>>

updateLocation(input) ==
    IF input.id \notin DOMAIN locations
    THEN Throws("updateLocation", input, NotFound("Location", input.id))
    ELSE /\ locations' = Put(locations, input.id,
               [name |-> SetText(input.name, locations[input.id].name),
                branch_code |-> SetText(input.branch_code, locations[input.id].branch_code),
                address |-> SetText(input.address, locations[input.id].address)])
         /\ Returns("updateLocation", input, FALSE, input.id, NoRow)
         /\ UNCHANGED <<categories, suppliers, items, purchases, history, seq>>

deleteLocation(id) ==
    IF id \notin DOMAIN locations
    THEN /\ Returns("deleteLocation", [id |-> id], FALSE, 0, NoRow)
         /\ UNCHANGED <<tables, seq>>
    ELSE IF LocationReferenced(id)
    THEN Throws("deleteLocation", [id |-> id], ForeignKeyViolation("locations", id))
    ELSE /\ locations' = Remove(locations, id)
         /\ Returns("deleteLocation", [id |-> id], TRUE, 0, NoRow)
         /\ UNCHANGED <<categories, suppliers, items, purchases, history, seq>>

(***************************************************************************)
(* handlers/suppliers.ts                                                   *)
(***************************************************************************)
createSupplier(input) ==
    LET id == seq.suppliers
    IN  /\ suppliers' = Put(suppliers, id,
               [name |-> input.name,
                contact_person |-> input.contact_person,
                phone_number |-> input.phone_number,
                address |-> input.address])
        /\ seq' = [seq EXCEPT !.suppliers = id + 1]
        /\ Returns("createSupplier", input, FALSE, id, NoRow)
        /\ UNCHANGED <<categories, locations, items, purchases, history>>

\* mutant of updateSupplier: an empty result of the update is not an error
updateSupplier_EmptyResultAccepted(input) ==
    /\ suppliers' = IF input.id \in DOMAIN suppliers
                    THEN [suppliers EXCEPT
                             ![input.id].name = SetText(input.name, @),
                             ![input.id].contact_person = SetText(input.contact_person, @),
                             ![input.id].phone_number = SetText(input.phone_number, @),
                             ![input.id].address = SetText(input.address, @)]
                    ELSE suppliers
    /\ Returns("updateSupplier", input, FALSE, input.id, NoRow)
    /\ UNCHANGED <<categories, locations, items, purchases, history, seq>>

updateSupplier(input) ==
    IF input.id \notin DOMAIN suppliers
    THEN Throws("updateSupplier", input, NotFound("Supplier", input.id))
    ELSE /\ suppliers' = Put(suppliers, input.id,
               [name |-> SetText(input.name, suppliers[input.id].name),
                contact_person |-> SetText(input.contact_person,
                                           suppliers[input.id].contact_person),
                phone_number |-> SetText(input.phone_number,
                                         suppliers[input.id].phone_number),
                address |-> SetText(input.address, suppliers[input.id].address)])
         /\ Returns("updateSupplier", input, FALSE, input.id, NoRow)
         /\ UNCHANGED <<categories, locations, items, purchases, history, seq>>

deleteSupplier(id) ==
    IF id \notin DOMAIN suppliers
    THEN /\ Returns("deleteSupplier", [id |-> id], FALSE, 0, NoRow)
         /\ UNCHANGED <<tables, seq>>
    ELSE IF SupplierReferenced(id)
    THEN Throws("deleteSupplier", [id |-> id], ForeignKeyViolation("suppliers", id))
    ELSE /\ suppliers' = Remove(suppliers, id)
         /\ Returns("deleteSupplier", [id |-> id], TRUE, 0, NoRow)
         /\ UNCHANGED <<categories, locations, items, purchases, history, seq>>

(***************************************************************************)
(* handlers/categories.ts: the handler file itself is not among the        *)
(* sources (only a placeholder and its test suite are); the three          *)
(* operations follow the test suite and the locations/suppliers handlers.  *)
(***************************************************************************)
createCategory(input) ==
    LET id == seq.categories
    IN  /\ categories' = Put(categories, id,
               [name |-> input.name, description |-> input.description])
        /\ seq' = [seq EXCEPT !.categories = id + 1]
        /\ Returns("createCategory", input, FALSE, id, NoRow)
        /\ UNCHANGED <<locations, suppliers, items, purchases, history>>

updateCategory(input) ==
    IF input.id \notin DOMAIN categories
    THEN Throws("updateCategory", input, NotFound("Category", input.id))
    ELSE /\ categories' = Put(categories, input.id,
               [name |-> SetText(input.name, categories[input.id].name),
                description |-> SetText(input.description,
                                        categories[input.id].description)])
         /\ Returns("updateCategory", input, FALSE, input.id, NoRow)
         /\ UNCHANGED <<locations, suppliers, items, purchases, history, seq>>

deleteCategory(id) ==
    IF id \notin DOMAIN categories
    THEN /\ Returns("deleteCategory", [id |-> id], FALSE, 0, NoRow)
         /\ UNCHANGED <<tables, seq>>
    ELSE IF CategoryReferenced(id)
    THEN Throws("deleteCategory", [id |-> id], ForeignKeyViolation("categories", id))
    ELSE /\ categories' = Remove(categories, id)
         /\ Returns("deleteCategory", [id |-> id], TRUE, 0, NoRow)
         /\ UNCHANGED <<locations, suppliers, items, purchases, history, seq>>

(***************************************************************************)
(* handlers/inventory.ts                                                   *)
(***************************************************************************)
createInventoryItem(input) ==
    LET id == seq.items
    IN  IF input.category_id \notin DOMAIN categories
        THEN Throws("createInventoryItem", input,
                    DoesNotExist("Category", input.category_id))
        ELSE IF input.location_id \notin DOMAIN locations
        THEN Throws("createInventoryItem", input,
                    DoesNotExist("Location", input.location_id))
        ELSE IF ItemCodeTaken(input.item_code, 0)
        THEN Throws("createInventoryItem", input, UniqueViolation("inventory_items", 0))
        ELSE /\ items' = Put(items, id,
                    [item_code |-> input.item_code,
                     name |-> input.name,
                     description |-> input.description,
                     category_id |-> input.category_id,
                     location_id |-> input.location_id,
                     condition |-> input.condition,
                     quantity |-> input.quantity,
                     purchase_price |-> ToNumeric2(input.purchase_price),
                     purchase_date |-> input.purchase_date])
             /\ seq' = [seq EXCEPT !.items = id + 1]
             /\ Returns("createInventoryItem", input, FALSE, id, NoRow)
             /\ UNCHANGED <<categories, locations, suppliers, purchases, history>>

\* the row updateInventoryItem writes over the stored one
UpdatedItem(input, item) ==
    [item_code |-> SetText(input.item_code, item.item_code),
     name |-> SetText(input.name, item.name),
     description |-> SetText(input.description, item.description),
     category_id |-> SetNum(input.category_id, item.category_id),
     location_id |-> SetNum(input.location_id, item.location_id),
     condition |-> SetText(input.condition, item.condition),
     quantity |-> SetNum(input.quantity, item.quantity),
     purchase_price |-> IF input.purchase_price # UndefinedNum
                        THEN ToNumeric2(input.purchase_price)
                        ELSE item.purchase_price,
     purchase_date |-> SetNum(input.purchase_date, item.purchase_date)]

updateInventoryItem(input) ==
    IF input.id \notin DOMAIN items
    THEN Throws("updateInventoryItem", input, DoesNotExist("Inventory item", input.id))
    ELSE IF input.category_id # UndefinedNum /\ input.category_id \notin DOMAIN categories
    THEN Throws("updateInventoryItem", input, DoesNotExist("Category", input.category_id))
    ELSE IF input.location_id # UndefinedNum /\ input.location_id \notin DOMAIN locations
    THEN Throws("updateInventoryItem", input, DoesNotExist("Location", input.location_id))
    ELSE IF input.item_code # Undefined /\ ItemCodeTaken(input.item_code, input.id)
    THEN Throws("updateInventoryItem", input, UniqueViolation("inventory_items", input.id))
    ELSE /\ items' = Put(items, input.id, UpdatedItem(input, items[input.id]))
         /\ Returns("updateInventoryItem", input, FALSE, input.id, NoRow)
         /\ UNCHANGED <<categories, locations, suppliers, purchases, history, seq>>

\* mutant of deleteInventoryItem: an id that matches no row is answered with
\* false, as the other delete handlers do
deleteInventoryItem_MissingReturnsFalse(id) ==
    IF id \notin DOMAIN items
    THEN /\ Returns("deleteInventoryItem", [id |-> id], FALSE, 0, NoRow)
         /\ UNCHANGED <<tables, seq>>
    ELSE IF ItemReferenced(id)
    THEN Throws("deleteInventoryItem", [id |-> id],
                ForeignKeyViolation("inventory_items", id))
    ELSE /\ items' = Remove(items, id)
         /\ Returns("deleteInventoryItem", [id |-> id], TRUE, 0, NoRow)
         /\ UNCHANGED <<categories, locations, suppliers, purchases, history, seq>>

deleteInventoryItem(id) ==
    IF id \notin DOMAIN items
    THEN Throws("deleteInventoryItem", [id |-> id], DoesNotExist("Inventory item", id))
    ELSE IF ItemReferenced(id)
    THEN Throws("deleteInventoryItem", [id |-> id],
                ForeignKeyViolation("inventory_items", id))
    ELSE /\ items' = Remove(items, id)
         /\ Returns("deleteInventoryItem", [id |-> id], TRUE, 0, NoRow)
         /\ UNCHANGED <<categories, locations, suppliers, purchases, history, seq>>
\* mutant of toLowerCase: names are compared as written
toLowerCase_AsWritten(name) == name

\* String.prototype.toLowerCase on the names the model uses
toLowerCase(name) ==
    CASE name = "Hardware" -> "hardware"
      [] name = "HARDWARE" -> "hardware"
      [] name = "Office" -> "office"
      [] name = "OFFICE" -> "office"
      [] name = "Depot" -> "depot"
      [] name = "DEPOT" -> "depot"
      [] OTHER -> name

\* item.location_name.substring(0, 3).toUpperCase() + Math.floor(Math.random() * 100)
BranchCodeOf(name, random) ==
    CASE toLowerCase(name) = "office" /\ random = 0 -> "OFF0"
      [] toLowerCase(name) = "office" /\ random # 0 -> "OFF42"
      [] toLowerCase(name) = "depot" /\ random = 0 -> "DEP0"
      [] toLowerCase(name) = "depot" /\ random # 0 -> "DEP42"
      [] OTHER -> "XXX0"

\* new Map(rows.map(r => [r.name.toLowerCase(), r.id])): one id per lowercased
\* name.  The select has no ORDER BY, so which of several rows with the same
\* lowercased name comes last (and wins) is the store's choice.
NameMaps(table) ==
    LET names == {toLowerCase(table[i].name) : i \in DOMAIN table}
    IN  {m \in [names -> DOMAIN table] :
            \A n \in names : toLowerCase(table[m[n]].name) = n}

\* one iteration of the import loop on row i of the batch, in the running
\* state st of the call (tables, sequences, the two maps, the two results)
ImportRow(item, i, st) ==
    LET catKey == toLowerCase(item.category_name)
        catHit == catKey \in DOMAIN st.categoryMap
        categoryId == IF catHit THEN st.categoryMap[catKey] ELSE st.seq.categories
        cats == IF catHit THEN st.categories
                ELSE Put(st.categories, categoryId,
                         [name |-> item.category_name, description |-> Null])
        catMap == IF catHit THEN st.categoryMap
                  ELSE Put(st.categoryMap, catKey, categoryId)
        locKey == toLowerCase(item.location_name)
        locHit == locKey \in DOMAIN st.locationMap
        locationId == IF locHit THEN st.locationMap[locKey] ELSE st.seq.locations
        locs == IF locHit THEN st.locations
                ELSE Put(st.locations, locationId,
                         [name |-> item.location_name,
                          branch_code |-> BranchCodeOf(item.location_name, st.random),
                          address |-> Null])
        locMap == IF locHit THEN st.locationMap
                  ELSE Put(st.locationMap, locKey, locationId)
        duplicate == \E j \in DOMAIN st.items : st.items[j].item_code = item.item_code
        seq1 == [st.seq EXCEPT
                    !.categories = IF catHit THEN @ ELSE @ + 1,
                    !.locations = IF locHit THEN @ ELSE @ + 1]
        afterLookups == [st EXCEPT !.categories = cats, !.categoryMap = catMap,
                                   !.locations = locs, !.locationMap = locMap,
                                   !.seq = seq1]
    IN  IF duplicate
        THEN [afterLookups EXCEPT
                 !.errors = Append(@, [index |-> i, item_code |-> item.item_code,
                                       message |-> "unique"])]
        ELSE [afterLookups EXCEPT
                 !.items = Put(@, seq1.items,
                     [item_code |-> item.item_code,
                      name |-> item.name,
                      description |-> item.description,
                      category_id |-> categoryId,
                      location_id |-> locationId,
                      condition |-> item.condition,
                      quantity |-> item.quantity,
                      purchase_price |-> ToNumeric2(item.purchase_price),
                      purchase_date |-> item.purchase_date]),
                 !.seq = [seq1 EXCEPT !.items = @ + 1],
                 !.success = @ + 1]

\* mutant of ImportLoop: the first failing row ends the import
RECURSIVE ImportLoop_StopsAtFirstError(_, _, _)
ImportLoop_StopsAtFirstError(rows, i, st) ==
    IF i > Len(rows) \/ st.errors # <<>> THEN st
    ELSE ImportLoop_StopsAtFirstError(rows, i + 1, ImportRow(rows[i], i, st))

RECURSIVE ImportLoop(_, _, _)
ImportLoop(rows, i, st) ==
    IF i > Len(rows) THEN st
    ELSE ImportLoop(rows, i + 1, ImportRow(rows[i], i, st))

\* categoryMap and locationMap are the maps built from the two initial
\* selects, random the value Math.random() yields during the call
batchImportItems(input, categoryMap, locationMap, random) ==
    LET st == ImportLoop(input.items, 1,
                  [categories |-> categories, locations |-> locations,
                   items |-> items, seq |-> seq,
                   categoryMap |-> categoryMap, locationMap |-> locationMap,
                   random |-> random, success |-> 0, errors |-> <<>>])
    IN  /\ categories' = st.categories
        /\ locations' = st.locations
        /\ items' = st.items
        /\ seq' = st.seq
        /\ Returns("batchImportItems", input,
                   [success |-> st.success, errors |-> st.errors], 0, NoRow)
        /\ UNCHANGED <<suppliers, purchases, history>>

(***************************************************************************)
(* handlers/location_history.ts                                            *)
(***************************************************************************)
\* mutants of MovesItem: the stored status is not consulted; any status moves
MovesItem_IgnoringCurrent(input, current) == input.status = "completed"

MovesItem_OnAnyStatus(input, current) ==
    input.status # Undefined /\ current.status # "completed"

\* whether updateLocationHistory moves the item of the row it read
MovesItem(input, current) ==
    input.status = "completed" /\ current.status # "completed"

\* mutant of WithLocation: the item update is lost
WithLocation_Lost(itemId, locationId) == items

\* db.update(inventoryItemsTable).set({location_id}).where(id = itemId)
WithLocation(itemId, locationId) ==
    IF itemId \in DOMAIN items
    THEN [items EXCEPT ![itemId].location_id = locationId]
    ELSE items

\* mutant of createLocationHistory: the item is moved whatever the status
createLocationHistory_MovesOnAnyStatus(input) ==
    LET id == seq.history
    IN  IF input.item_id \notin DOMAIN items
        THEN Throws("createLocationHistory", input, DoesNotExist("Item", input.item_id))
        ELSE IF input.to_location_id \notin DOMAIN locations
        THEN Throws("createLocationHistory", input,
                    DoesNotExist("Location", input.to_location_id))
        ELSE IF input.from_location_id # NullId
                /\ input.from_location_id \notin DOMAIN locations
        THEN Throws("createLocationHistory", input,
                    DoesNotExist("Location", input.from_location_id))
        ELSE /\ history' = Put(history, id,
                    [item_id |-> input.item_id,
                     from_location_id |-> input.from_location_id,
                     to_location_id |-> input.to_location_id,
                     transfer_date |-> input.transfer_date,
                     transferred_by |-> input.transferred_by,
                     reason |-> input.reason,
                     status |-> input.status,
                     notes |-> input.notes])
             /\ seq' = [seq EXCEPT !.history = id + 1]
             /\ items' = WithLocation(input.item_id, input.to_location_id)
             /\ Returns("createLocationHistory", input, FALSE, id, NoRow)
             /\ UNCHANGED <<categories, locations, suppliers, purchases>>

createLocationHistory(input) ==
    LET id == seq.history
    IN  IF input.item_id \notin DOMAIN items
        THEN Throws("createLocationHistory", input, DoesNotExist("Item", input.item_id))
        ELSE IF input.to_location_id \notin DOMAIN locations
        THEN Throws("createLocationHistory", input,
                    DoesNotExist("Location", input.to_location_id))
        ELSE IF input.from_location_id # NullId
                /\ input.from_location_id \notin DOMAIN locations
        THEN Throws("createLocationHistory", input,
                    DoesNotExist("Location", input.from_location_id))
        ELSE /\ history' = Put(history, id,
                    [item_id |-> input.item_id,
                     from_location_id |-> input.from_location_id,
                     to_location_id |-> input.to_location_id,
                     transfer_date |-> input.transfer_date,
                     transferred_by |-> input.transferred_by,
                     reason |-> input.reason,
                     status |-> input.status,
                     notes |-> input.notes])
             /\ seq' = [seq EXCEPT !.history = id + 1]
             /\ items' = IF input.status = "completed"
                         THEN WithLocation(input.item_id, input.to_location_id)
                         ELSE items
             /\ Returns("createLocationHistory", input, FALSE, id, NoRow)
             /\ UNCHANGED <<categories, locations, suppliers, purchases>>

updateLocationHistory(input) ==
    IF input.id \notin DOMAIN history
    THEN Throws("updateLocationHistory", input,
                DoesNotExist("Location history", input.id))
    ELSE LET current == history[input.id]
         IN  /\ history' = [history EXCEPT
                    ![input.id].status = SetText(input.status, @),
                    ![input.id].notes = SetText(input.notes, @)]
             /\ items' = IF MovesItem(input, current)
                         THEN WithLocation(current.item_id, current.to_location_id)
                         ELSE items
             /\ Returns("updateLocationHistory", input, FALSE, input.id, current)
             /\ UNCHANGED <<categories, locations, suppliers, purchases, seq>>

deleteLocationHistory(id) ==
    IF id \notin DOMAIN history
    THEN /\ Returns("deleteLocationHistory", [id |-> id], FALSE, 0, NoRow)
         /\ UNCHANGED <<tables, seq>>
    ELSE /\ history' = Remove(history, id)
         /\ Returns("deleteLocationHistory", [id |-> id], TRUE, 0, NoRow)
         /\ UNCHANGED <<categories, locations, suppliers, items, purchases, seq>>
(***************************************************************************)
(* Initial stores.  The empty store is the state after resetDB/createDB;   *)
(* the seeded store is the fixture the handler test suites build in        *)
(* beforeEach (a category, locations, suppliers and items to refer to).    *)
(***************************************************************************)
\* The handler calls in progress, one per caller: where the call stands
\* (pc), its input, and the row it read (current).
Callers == {1, 2}
Idle == [pc |-> "idle", op |-> "none", input |-> [id |-> 0], current |-> NoRow]
NoCalls == [c \in Callers |-> Idle]

\* The AuthProvider before it is mounted: useState(null), useState(true),
\* nothing under 'sessionId' in localStorage, no callback running
Unmounted ==
    [user |-> Null, isLoading |-> TRUE, sessionId |-> Null,
     checkSession |-> "unmounted", login |-> "idle", logout |-> "idle"]

NoCall == [op |-> "none", input |-> [id |-> 0], ok |-> TRUE, err |-> NoError,
           ret |-> FALSE, id |-> 0, current |-> NoRow]

SeedCategories == (1 :> [name |-> "Hardware", description |-> Null])

SeedLocations ==
    (1 :> [name |-> "Office", branch_code |-> "HQ", address |-> Null])
    @@ (2 :> [name |-> "Depot", branch_code |-> "DP", address |-> "Dock Rd"])

SeedSuppliers ==
    (1 :> [name |-> "Acme", contact_person |-> Null,
           phone_number |-> Null, address |-> Null])
    @@ (2 :> [name |-> "Bolt", contact_person |-> "Kim",
              phone_number |-> "555", address |-> Null])

SeedItems ==
    (1 :> [item_code |-> "IT-1", name |-> "Laptop", description |-> Null,
           category_id |-> 1, location_id |-> 1, condition |-> "good",
           quantity |-> 10, purchase_price |-> 9999, purchase_date |-> 1])
    @@ (2 :> [item_code |-> "IT-2", name |-> "Monitor", description |-> Null,
              category_id |-> 1, location_id |-> 2, condition |-> "fair",
              quantity |-> 0, purchase_price |-> 0, purchase_date |-> 1])

InitEmpty ==
    /\ categories = EmptyTable /\ locations = EmptyTable
    /\ suppliers = EmptyTable /\ items = EmptyTable
    /\ purchases = EmptyTable /\ history = EmptyTable
    /\ seq = [categories |-> 1, locations |-> 1, suppliers |-> 1,
              items |-> 1, purchases |-> 1, history |-> 1, users |-> 1]
    /\ users = EmptyTable /\ sessions = EmptyTable
    /\ last = NoCall
    /\ ops = 0
    /\ calls = NoCalls /\ client = Unmounted

InitSeeded ==
    /\ categories = SeedCategories /\ locations = SeedLocations
    /\ suppliers = SeedSuppliers /\ items = SeedItems
    /\ purchases = EmptyTable /\ history = EmptyTable
    /\ seq = [categories |-> 2, locations |-> 3, suppliers |-> 3,
              items |-> 3, purchases |-> 1, history |-> 1, users |-> 1]
    /\ users = EmptyTable /\ sessions = EmptyTable
    /\ last = NoCall
    /\ ops = 0
    /\ calls = NoCalls /\ client = Unmounted

(***************************************************************************)
(* Purchases: every sequence of purchase calls on the seeded store         *)
(***************************************************************************)
\* purchases ever created in a run
MaxPurchases == 2

\* quantities and unit prices (in mills: 1000 is 1.00, 1995 is 1.995)
Quantities == {1, 3}
UnitPrices == {1000, 1995}

CreatePurchaseInputs ==
    [item_id : {1}, supplier_id : {1, 2}, quantity : Quantities,
     unit_price : UnitPrices, purchase_date : {1}, notes : {Null}]

UpdatePurchaseInputs ==
    [id : 1..MaxPurchases, item_id : {UndefinedNum, 2},
     supplier_id : {UndefinedNum}, quantity : {UndefinedNum} \cup Quantities,
     unit_price : {UndefinedNum} \cup UnitPrices,
     purchase_date : {UndefinedNum}, notes : {Undefined}]

PurchaseCreate ==
    /\ seq.purchases <= MaxPurchases
    /\ \E input \in CreatePurchaseInputs : createPurchase(input)
    /\ UNCHANGED <<ops, accounts, calls, client>>

PurchaseUpdate ==
    /\ \E input \in UpdatePurchaseInputs : updatePurchase(input)
    /\ UNCHANGED <<ops, accounts, calls, client>>

PurchaseDelete ==
    /\ \E id \in 1..MaxPurchases : deletePurchase(id)
    /\ UNCHANGED <<ops, accounts, calls, client>>

NextPurchase == PurchaseCreate \/ PurchaseUpdate \/ PurchaseDelete

SpecPurchase == InitSeeded /\ [][NextPurchase]_vars

\* C1: after any sequence of createPurchase and updatePurchase calls every
\* stored purchase has total_price = quantity * unit_price
C1_TotalIsQuantityTimesUnitPrice ==
    \A p \in DOMAIN purchases :
        purchases[p].total_price = purchases[p].quantity * purchases[p].unit_price
(***************************************************************************)
(* Transfers: every sequence of location-history calls and direct item     *)
(* relocations on the seeded store                                         *)
(***************************************************************************)
\* transfers ever created in a run
MaxTransfers == 2

\* an updateInventoryItem input that supplies no field
NoItemChange(id) ==
    [id |-> id, item_code |-> Undefined, name |-> Undefined,
     description |-> Undefined, category_id |-> UndefinedNum,
     location_id |-> UndefinedNum, condition |-> Undefined,
     quantity |-> UndefinedNum, purchase_price |-> UndefinedNum,
     purchase_date |-> UndefinedNum]

CreateTransferInputs ==
    [item_id : {1}, from_location_id : {1}, to_location_id : {1, 2},
     transfer_date : {1}, transferred_by : {"Ana"}, reason : {Null},
     status : transferStatusEnum, notes : {Null}]

UpdateTransferInputs ==
    [id : 1..MaxTransfers, status : {Undefined} \cup transferStatusEnum,
     notes : {Undefined, "checked"}]

TransferCreate ==
    /\ seq.history <= MaxTransfers
    /\ \E input \in CreateTransferInputs : createLocationHistory(input)
    /\ UNCHANGED <<ops, accounts, calls, client>>

TransferUpdate ==
    /\ \E input \in UpdateTransferInputs : updateLocationHistory(input)
    /\ UNCHANGED <<ops, accounts, calls, client>>

TransferDelete ==
    /\ \E id \in 1..MaxTransfers : deleteLocationHistory(id)
    /\ UNCHANGED <<ops, accounts, calls, client>>

ItemRelocate ==
    /\ \E l \in DOMAIN locations :
           updateInventoryItem([NoItemChange(1) EXCEPT !.location_id = l])
    /\ UNCHANGED <<ops, accounts, calls, client>>

NextTransfer == TransferCreate \/ TransferUpdate \/ TransferDelete \/ ItemRelocate

SpecTransfer == InitSeeded /\ [][NextTransfer]_vars

\* the last call was a location-history write that succeeded
TransferWritten ==
    /\ last.op \in {"createLocationHistory", "updateLocationHistory"}
    /\ last.ok
\* C2 as stated: after every successful location-history write with status
\* completed, the item is at the row's destination, whatever the row's prior
\* status
C2_CompletedAlwaysMovesItem ==
    (TransferWritten /\ last.input.status = "completed")
        => items[history[last.id].item_id].location_id
               = history[last.id].to_location_id

\* C2 amended: after a successful createLocationHistory with status completed,
\* or a successful updateLocationHistory that sets completed on a row whose
\* stored status was not completed, the item is at the row's destination
C2_CompletedMovesItemUnlessAlreadyCompleted ==
    (/\ TransferWritten
     /\ last.input.status = "completed"
     /\ (last.op = "createLocationHistory" \/ last.current.status # "completed"))
        => items[history[last.id].item_id].location_id
               = history[last.id].to_location_id

C2_Witness ==
    /\ TransferWritten
    /\ last.op = "updateLocationHistory"
    /\ last.input.status = "completed"
    /\ last.current.status = "in_transit"
    /\ last.current.to_location_id = 2
    /\ items[last.current.item_id].location_id = 2

\* C3: a location-history write whose status is not completed (or an update
\* that supplies no status) leaves every item's location_id unchanged
C3_OtherStatusKeepsLocations ==
    [][(/\ last'.op \in {"createLocationHistory", "updateLocationHistory"}
        /\ last'.input.status # "completed")
           => (/\ DOMAIN items' = DOMAIN items
               /\ \A i \in DOMAIN items :
                      items'[i].location_id = items[i].location_id)]_vars

C3_Witness ==
    /\ TransferWritten
    /\ last.op = "updateLocationHistory"
    /\ last.input.status = "cancelled"
    /\ last.current.status = "completed"
    /\ history[last.id].status = "cancelled"
    /\ items[last.current.item_id].location_id = last.current.to_location_id

\* C4: updateLocationHistory with status completed on a row already completed
\* writes the notes and leaves the items as they were
C4_RecompletingKeepsLocation ==
    [][(/\ last'.op = "updateLocationHistory"
        /\ last'.ok
        /\ last'.input.status = "completed"
        /\ last'.current.status = "completed")
           => (/\ items' = items
               /\ history'[last'.id].status = "completed"
               /\ history'[last'.id].notes
                      = SetText(last'.input.notes, history[last'.id].notes))]_vars

C4_Witness ==
    /\ last.op = "updateLocationHistory"
    /\ last.ok
    /\ last.input.status = "completed"
    /\ last.current.status = "completed"
    /\ last.input.notes = "checked"
    /\ last.current.notes = Null
    /\ history[last.id].notes = "checked"
    /\ items[last.current.item_id].location_id # last.current.to_location_id
(***************************************************************************)
(* The whole store: every sequence of calls of every handler on the empty  *)
(* store, with one payload per entity so that rows differ in what they     *)
(* refer to                                                                *)
(***************************************************************************)
\* rows ever created in a run, over all tables
MaxRows == 5

RowsCreated ==
    (seq.categories - 1) + (seq.locations - 1) + (seq.suppliers - 1)
    + (seq.items - 1) + (seq.purchases - 1) + (seq.history - 1)

\* the ids worth passing: those of the stored rows and one that matches no row
Ids(table, next) == DOMAIN table \cup {next}

ItemCodes == {"IT-1", "IT-2"}

\* an updatePurchase input that supplies no field
NoPurchaseChange(id) ==
    [id |-> id, item_id |-> UndefinedNum, supplier_id |-> UndefinedNum,
     quantity |-> UndefinedNum, unit_price |-> UndefinedNum,
     purchase_date |-> UndefinedNum, notes |-> Undefined]

StoreItem(code, categoryId, locationId) ==
    [item_code |-> code, name |-> "Laptop", description |-> Null,
     category_id |-> categoryId, location_id |-> locationId,
     condition |-> "good", quantity |-> 1, purchase_price |-> 1000,
     purchase_date |-> 1]

BatchRow(code, categoryName, locationName) ==
    [item_code |-> code, name |-> "Laptop", description |-> Null,
     category_name |-> categoryName, location_name |-> locationName,
     condition |-> "good", quantity |-> 1, purchase_price |-> 1000,
     purchase_date |-> 1]

StoreCreateCategory ==
    /\ RowsCreated < MaxRows
    /\ createCategory([name |-> "Hardware", description |-> Null])
    /\ UNCHANGED <<ops, accounts, calls, client>>

StoreUpdateCategory ==
    /\ \E id \in Ids(categories, seq.categories) :
           updateCategory([id |-> id, name |-> Undefined, description |-> Null])
    /\ UNCHANGED <<ops, accounts, calls, client>>

StoreDeleteCategory ==
    /\ \E id \in Ids(categories, seq.categories) : deleteCategory(id)
    /\ UNCHANGED <<ops, accounts, calls, client>>

StoreCreateLocation ==
    /\ RowsCreated < MaxRows
    /\ createLocation([name |-> "Office", branch_code |-> "HQ", address |-> Null])
    /\ UNCHANGED <<ops, accounts, calls, client>>

StoreUpdateLocation ==
    /\ \E id \in Ids(locations, seq.locations) :
           updateLocation([id |-> id, name |-> Undefined,
                           branch_code |-> Undefined, address |-> Null])
    /\ UNCHANGED <<ops, accounts, calls, client>>

StoreDeleteLocation ==
    /\ \E id \in Ids(locations, seq.locations) : deleteLocation(id)
    /\ UNCHANGED <<ops, accounts, calls, client>>

StoreCreateSupplier ==
    /\ RowsCreated < MaxRows
    /\ createSupplier([name |-> "Acme", contact_person |-> Null,
                       phone_number |-> Null, address |-> Null])
    /\ UNCHANGED <<ops, accounts, calls, client>>

StoreUpdateSupplier ==
    /\ \E id \in Ids(suppliers, seq.suppliers) :
           updateSupplier([id |-> id, name |-> Undefined,
                           contact_person |-> Undefined,
                           phone_number |-> Undefined, address |-> Null])
    /\ UNCHANGED <<ops, accounts, calls, client>>

StoreDeleteSupplier ==
    /\ \E id \in Ids(suppliers, seq.suppliers) : deleteSupplier(id)
    /\ UNCHANGED <<ops, accounts, calls, client>>

StoreCreateItem ==
    /\ RowsCreated < MaxRows
    /\ \E code \in ItemCodes, c \in Ids(categories, seq.categories),
          l \in Ids(locations, seq.locations) :
           createInventoryItem(StoreItem(code, c, l))
    /\ UNCHANGED <<ops, accounts, calls, client>>

\* updateInventoryItem inputs that supply one of category_id, location_id
StoreItemChanges(id) ==
    {[NoItemChange(id) EXCEPT !.category_id = c] :
              c \in Ids(categories, seq.categories)}
    \cup {[NoItemChange(id) EXCEPT !.location_id = l] :
              l \in Ids(locations, seq.locations)}

StoreUpdateItem ==
    /\ \/ \E id \in DOMAIN items :
              \E input \in StoreItemChanges(id) : updateInventoryItem(input)
       \/ updateInventoryItem(NoItemChange(seq.items))
    /\ UNCHANGED <<ops, accounts, calls, client>>

StoreDeleteItem ==
    /\ \E id \in Ids(items, seq.items) : deleteInventoryItem(id)
    /\ UNCHANGED <<ops, accounts, calls, client>>

StoreBatchImport ==
    /\ RowsCreated + 3 <= MaxRows
    /\ \E code \in ItemCodes, cname \in {"HARDWARE"}, lname \in {"OFFICE", "Depot"},
          categoryMap \in NameMaps(categories), locationMap \in NameMaps(locations) :
           batchImportItems([items |-> <<BatchRow(code, cname, lname)>>],
                            categoryMap, locationMap, 0)
    /\ UNCHANGED <<ops, accounts, calls, client>>

StoreCreatePurchase ==
    /\ RowsCreated < MaxRows
    /\ \E i \in Ids(items, seq.items), s \in Ids(suppliers, seq.suppliers) :
           createPurchase([item_id |-> i, supplier_id |-> s, quantity |-> 1,
                           unit_price |-> 1000, purchase_date |-> 1,
                           notes |-> Null])
    /\ UNCHANGED <<ops, accounts, calls, client>>

\* updatePurchase inputs that supply one of item_id, supplier_id
StorePurchaseChanges(id) ==
    {[NoPurchaseChange(id) EXCEPT !.item_id = i] : i \in Ids(items, seq.items)}
    \cup {[NoPurchaseChange(id) EXCEPT !.supplier_id = s] :
              s \in Ids(suppliers, seq.suppliers)}

StoreUpdatePurchase ==
    /\ \/ \E id \in DOMAIN purchases :
              \E input \in StorePurchaseChanges(id) : updatePurchase(input)
       \/ updatePurchase(NoPurchaseChange(seq.purchases))
    /\ UNCHANGED <<ops, accounts, calls, client>>

StoreDeletePurchase ==
    /\ \E id \in Ids(purchases, seq.purchases) : deletePurchase(id)
    /\ UNCHANGED <<ops, accounts, calls, client>>

\* createLocationHistory inputs: the transfers between stored rows, and for
\* each stored item those whose destination or origin matches no row
StoreTransfer(itemId, fromId, toId, status) ==
    [item_id |-> itemId, from_location_id |-> fromId, to_location_id |-> toId,
     transfer_date |-> 1, transferred_by |-> "Ana", reason |-> Null,
     status |-> status, notes |-> Null]

StoreTransfers ==
    {StoreTransfer(i, NullId, t, st) :
        i \in Ids(items, seq.items), t \in DOMAIN locations,
        st \in {"pending", "completed"}}
    \cup {StoreTransfer(i, f, seq.locations, "completed") :
              i \in Ids(items, seq.items), f \in {NullId, seq.locations}}
    \cup {StoreTransfer(i, seq.locations, t, "completed") :
              i \in DOMAIN items, t \in DOMAIN locations}

StoreCreateTransfer ==
    /\ RowsCreated < MaxRows
    /\ \E input \in StoreTransfers : createLocationHistory(input)
    /\ UNCHANGED <<ops, accounts, calls, client>>

StoreUpdateTransfer ==
    /\ \/ \E id \in DOMAIN history, st \in {"pending", "completed"} :
              updateLocationHistory([id |-> id, status |-> st, notes |-> Undefined])
       \/ updateLocationHistory([id |-> seq.history, status |-> "completed",
                                 notes |-> Undefined])
    /\ UNCHANGED <<ops, accounts, calls, client>>

StoreDeleteTransfer ==
    /\ \E id \in Ids(history, seq.history) : deleteLocationHistory(id)
    /\ UNCHANGED <<ops, accounts, calls, client>>

NextStore ==
    \/ StoreCreateCategory \/ StoreUpdateCategory \/ StoreDeleteCategory
    \/ StoreCreateLocation \/ StoreUpdateLocation \/ StoreDeleteLocation
    \/ StoreCreateSupplier \/ StoreUpdateSupplier \/ StoreDeleteSupplier
    \/ StoreCreateItem \/ StoreUpdateItem \/ StoreDeleteItem
    \/ StoreBatchImport
    \/ StoreCreatePurchase \/ StoreUpdatePurchase \/ StoreDeletePurchase
    \/ StoreCreateTransfer \/ StoreUpdateTransfer \/ StoreDeleteTransfer

SpecStore == InitEmpty /\ [][NextStore]_vars

\* the tables other than the one a delete addresses
ExceptCategories == <<locations, suppliers, items, purchases, history>>
ExceptLocations == <<categories, suppliers, items, purchases, history>>
ExceptSuppliers == <<categories, locations, items, purchases, history>>

C6_ItemReferencesExist ==
    \A i \in DOMAIN items :
        /\ items[i].category_id \in DOMAIN categories
        /\ items[i].location_id \in DOMAIN locations

\* a completed transfer has just moved an item, after some location was deleted
C6_Witness ==
    /\ last.op = "updateLocationHistory"
    /\ last.ok
    /\ last.current.status # "completed"
    /\ items[last.current.item_id].location_id = last.current.to_location_id
    /\ Cardinality(DOMAIN locations) < seq.locations - 1

\* C7: createInventoryItem, createPurchase and createLocationHistory called
\* with a referenced id that matches no row raise an error naming that id and
\* insert nothing; the failing createLocationHistory moves no item
C7_CreateWithMissingReferenceFails ==
    [][LET input == last'.input
           err == last'.err
           Names(entity, id, table) ==
               err.entity = entity /\ err.id = id /\ id \notin DOMAIN table
       IN  /\ (/\ last'.op = "createInventoryItem"
               /\ \/ input.category_id \notin DOMAIN categories
                  \/ input.location_id \notin DOMAIN locations) =>
                 /\ ~last'.ok /\ err.kind = "does_not_exist"
                 /\ \/ Names("Category", input.category_id, categories)
                    \/ Names("Location", input.location_id, locations)
                 /\ tables' = tables
           /\ (/\ last'.op = "createPurchase"
               /\ \/ input.item_id \notin DOMAIN items
                  \/ input.supplier_id \notin DOMAIN suppliers) =>
                 /\ ~last'.ok /\ err.kind = "does_not_exist"
                 /\ \/ Names("Inventory item", input.item_id, items)
                    \/ Names("Supplier", input.supplier_id, suppliers)
                 /\ tables' = tables
           /\ (/\ last'.op = "createLocationHistory"
               /\ \/ input.item_id \notin DOMAIN items
                  \/ input.to_location_id \notin DOMAIN locations
                  \/ /\ input.from_location_id # NullId
                     /\ input.from_location_id \notin DOMAIN locations) =>
                 /\ ~last'.ok /\ err.kind = "does_not_exist"
                 /\ \/ Names("Item", input.item_id, items)
                    \/ Names("Location", input.to_location_id, locations)
                    \/ /\ input.from_location_id # NullId
                       /\ Names("Location", input.from_location_id, locations)
                 /\ tables' = tables
      ]_vars

\* a completed transfer of a stored item to a location that does not exist
C7_Witness ==
    /\ last.op = "createLocationHistory"
    /\ ~last.ok
    /\ last.input.status = "completed"
    /\ last.input.item_id \in DOMAIN items
    /\ last.input.to_location_id \notin DOMAIN locations
    /\ last.err.id = last.input.to_location_id
    /\ history = EmptyTable

\* C8: updateLocation, updateSupplier, updateInventoryItem, updatePurchase and
\* updateLocationHistory called with an id that matches no row raise an error
\* and leave every table unchanged
C8_UpdateOfMissingRowFails ==
    [][LET id == last'.input.id
       IN  (\/ last'.op = "updateLocation" /\ id \notin DOMAIN locations
            \/ last'.op = "updateSupplier" /\ id \notin DOMAIN suppliers
            \/ last'.op = "updateInventoryItem" /\ id \notin DOMAIN items
            \/ last'.op = "updatePurchase" /\ id \notin DOMAIN purchases
            \/ last'.op = "updateLocationHistory" /\ id \notin DOMAIN history) =>
               /\ ~last'.ok
               /\ last'.err.kind \in {"not_found", "does_not_exist"}
               /\ last'.err.id = id
               /\ tables' = tables
      ]_vars

\* updateSupplier of an id that is not stored, while another supplier is
C8_Witness ==
    /\ last.op = "updateSupplier"
    /\ ~last.ok
    /\ last.input.id \notin DOMAIN suppliers
    /\ DOMAIN suppliers # {}

\* C10: deleteInventoryItem of an item that a purchase or a transfer refers
\* to fails and changes nothing, and after every call each purchase and each
\* transfer refers to a stored item
C10_ItemDeleteRespectsReferences ==
    [][/\ (/\ last'.op = "deleteInventoryItem"
           /\ \/ \E p \in DOMAIN purchases : purchases[p].item_id = last'.input.id
              \/ \E h \in DOMAIN history : history[h].item_id = last'.input.id) =>
              (~last'.ok /\ tables' = tables)
       /\ \A p \in DOMAIN purchases' : purchases'[p].item_id \in DOMAIN items'
       /\ \A h \in DOMAIN history' : history'[h].item_id \in DOMAIN items'
      ]_vars

\* deleteInventoryItem refused for an item that only a transfer refers to
C10_Witness ==
    /\ last.op = "deleteInventoryItem"
    /\ ~last.ok
    /\ last.input.id \in DOMAIN items
    /\ \A p \in DOMAIN purchases : purchases[p].item_id # last.input.id
    /\ \E h \in DOMAIN history : history[h].item_id = last.input.id

\* the tables a delete handler does not address
ExceptItems == <<categories, locations, suppliers, purchases, history>>
ExceptPurchases == <<categories, locations, suppliers, items, history>>
ExceptHistory == <<categories, locations, suppliers, items, purchases>>

\* C17: a delete of an id that matches no row changes no table:
\* deleteLocation, deleteSupplier, deletePurchase and deleteLocationHistory
\* return false, deleteInventoryItem raises 'Inventory item with ID <id> does
\* not exist'; a delete of a stored row that no row refers to returns true and
\* removes that row and nothing else
C17_DeleteOfMissingRowChangesNothing ==
    [][LET id == last'.input.id
           op == last'.op
       IN  /\ (\/ op = "deleteLocation" /\ id \notin DOMAIN locations
               \/ op = "deleteSupplier" /\ id \notin DOMAIN suppliers
               \/ op = "deletePurchase" /\ id \notin DOMAIN purchases
               \/ op = "deleteLocationHistory" /\ id \notin DOMAIN history) =>
                  (last'.ok /\ last'.ret = FALSE /\ tables' = tables)
           /\ (op = "deleteInventoryItem" /\ id \notin DOMAIN items) =>
                  /\ ~last'.ok
                  /\ last'.err = [kind |-> "does_not_exist",
                                  entity |-> "Inventory item", id |-> id]
                  /\ tables' = tables
           /\ (/\ op = "deleteLocation" /\ id \in DOMAIN locations
               /\ \A i \in DOMAIN items : items[i].location_id # id
               /\ \A h \in DOMAIN history :
                      id \notin {history[h].from_location_id,
                                 history[h].to_location_id}) =>
                  /\ last'.ok /\ last'.ret = TRUE
                  /\ DOMAIN locations' = DOMAIN locations \ {id}
                  /\ \A l \in DOMAIN locations' : locations'[l] = locations[l]
                  /\ ExceptLocations' = ExceptLocations
           /\ (/\ op = "deleteSupplier" /\ id \in DOMAIN suppliers
               /\ \A p \in DOMAIN purchases : purchases[p].supplier_id # id) =>
                  /\ last'.ok /\ last'.ret = TRUE
                  /\ DOMAIN suppliers' = DOMAIN suppliers \ {id}
                  /\ \A x \in DOMAIN suppliers' : suppliers'[x] = suppliers[x]
                  /\ ExceptSuppliers' = ExceptSuppliers
           /\ (/\ op = "deleteInventoryItem" /\ id \in DOMAIN items
               /\ \A p \in DOMAIN purchases : purchases[p].item_id # id
               /\ \A h \in DOMAIN history : history[h].item_id # id) =>
                  /\ last'.ok /\ last'.ret = TRUE
                  /\ DOMAIN items' = DOMAIN items \ {id}
                  /\ \A i \in DOMAIN items' : items'[i] = items[i]
                  /\ ExceptItems' = ExceptItems
           /\ (op = "deletePurchase" /\ id \in DOMAIN purchases) =>
                  /\ last'.ok /\ last'.ret = TRUE
                  /\ DOMAIN purchases' = DOMAIN purchases \ {id}
                  /\ \A p \in DOMAIN purchases' : purchases'[p] = purchases[p]
                  /\ ExceptPurchases' = ExceptPurchases
           /\ (op = "deleteLocationHistory" /\ id \in DOMAIN history) =>
                  /\ last'.ok /\ last'.ret = TRUE
                  /\ DOMAIN history' = DOMAIN history \ {id}
                  /\ \A h \in DOMAIN history' : history'[h] = history[h]
                  /\ ExceptHistory' = ExceptHistory
      ]_vars

\* deleteInventoryItem raised for an id that matches no row, on a store that
\* holds items and a purchase
C17_Witness ==
    /\ last.op = "deleteInventoryItem"
    /\ ~last.ok
    /\ last.err.kind = "does_not_exist"
    /\ last.input.id \notin DOMAIN items
    /\ DOMAIN items # {}
    /\ DOMAIN purchases # {}

\* C22: an item's location_id changes only through updateInventoryItem with
\* a location_id supplied or through a createLocationHistory or
\* updateLocationHistory for that item that sets status to completed; every
\* other call (purchases, deletes, the other updates, batch import) leaves it
C22_ItemMovesOnlyByEditOrCompletedTransfer ==
    [][\A i \in DOMAIN items \cap DOMAIN items' :
          items'[i].location_id # items[i].location_id =>
             \/ /\ last'.op = "updateInventoryItem"
                /\ last'.input.id = i
                /\ last'.input.location_id # UndefinedNum
             \/ /\ last'.op = "createLocationHistory"
                /\ last'.input.item_id = i
                /\ last'.input.status = "completed"
             \/ /\ last'.op = "updateLocationHistory"
                /\ last'.input.status = "completed"
                /\ last'.input.id \in DOMAIN history
                /\ history[last'.input.id].item_id = i
      ]_vars

\* the last transfer was deleted and an item is still at the second location
C22_Witness ==
    /\ last.op = "deleteLocationHistory"
    /\ last.ok /\ last.ret = TRUE
    /\ DOMAIN history = {}
    /\ \E i \in DOMAIN items : items[i].location_id = 2

(***************************************************************************)
(* Partial updates: the update handlers called on a store that holds rows  *)
(* of every table, with inputs that supply no field, one field, or all     *)
(***************************************************************************)
\* update calls in a run
MaxUpdates == 2

\* the purchase and the pending transfer a createPurchase and a
\* createLocationHistory call leave in the seeded store
SeedPurchases ==
    (1 :> [item_id |-> 1, supplier_id |-> 1, quantity |-> 2,
           unit_price |-> 1000, total_price |-> 2000, purchase_date |-> 1,
           notes |-> Null])

SeedHistory ==
    (1 :> [item_id |-> 1, from_location_id |-> 1, to_location_id |-> 2,
           transfer_date |-> 1, transferred_by |-> "Ana", reason |-> Null,
           status |-> "pending", notes |-> Null])

InitUpdate ==
    /\ categories = SeedCategories /\ locations = SeedLocations
    /\ suppliers = SeedSuppliers /\ items = SeedItems
    /\ purchases = SeedPurchases /\ history = SeedHistory
    /\ seq = [categories |-> 2, locations |-> 3, suppliers |-> 3,
              items |-> 3, purchases |-> 2, history |-> 2, users |-> 1]
    /\ users = EmptyTable /\ sessions = EmptyTable
    /\ last = NoCall
    /\ ops = 0
    /\ calls = NoCalls /\ client = Unmounted

\* the inputs of one handler: none of the fields, each field alone, all fields
\* (none is a record of undefined fields, all a record of supplied ones)
OneOrAll(none, all) ==
    {none, all}
    \cup {[none EXCEPT ![f] = all[f]] : f \in DOMAIN none \ {"id"}}

UpdateLocationInputs ==
    UNION {OneOrAll([id |-> id, name |-> Undefined, branch_code |-> Undefined,
                     address |-> Undefined],
                    [id |-> id, name |-> "Annex", branch_code |-> "AX",
                     address |-> Null]) : id \in {1, 2}}

UpdateSupplierInputs ==
    UNION {OneOrAll([id |-> id, name |-> Undefined, contact_person |-> Undefined,
                     phone_number |-> Undefined, address |-> Undefined],
                    [id |-> id, name |-> "Cog", contact_person |-> Null,
                     phone_number |-> "777", address |-> "Mill Ln"]) : id \in {1, 2}}

UpdateItemInputs ==
    UNION {OneOrAll(NoItemChange(id),
                    [id |-> id, item_code |-> "IT-9", name |-> "Desktop",
                     description |-> "spare", category_id |-> 1,
                     location_id |-> 2, condition |-> "poor", quantity |-> 5,
                     purchase_price |-> 12345, purchase_date |-> 2]) : id \in {1, 2}}

UpdatePurchaseFieldInputs ==
    OneOrAll(NoPurchaseChange(1),
             [id |-> 1, item_id |-> 2, supplier_id |-> 2, quantity |-> 3,
              unit_price |-> 2500, purchase_date |-> 2, notes |-> "late"])
    \cup {[NoPurchaseChange(1) EXCEPT !.quantity = 3, !.unit_price = 2500]}

UpdateTransferFieldInputs ==
    [id : {1}, status : {Undefined} \cup transferStatusEnum,
     notes : {Undefined, "checked"}]

UpdLocation ==
    /\ ops < MaxUpdates
    /\ \E input \in UpdateLocationInputs : updateLocation(input)
    /\ ops' = ops + 1
    /\ UNCHANGED <<accounts, calls, client>>

UpdSupplier ==
    /\ ops < MaxUpdates
    /\ \E input \in UpdateSupplierInputs : updateSupplier(input)
    /\ ops' = ops + 1
    /\ UNCHANGED <<accounts, calls, client>>

UpdItem ==
    /\ ops < MaxUpdates
    /\ \E input \in UpdateItemInputs : updateInventoryItem(input)
    /\ ops' = ops + 1
    /\ UNCHANGED <<accounts, calls, client>>

UpdPurchase ==
    /\ ops < MaxUpdates
    /\ \E input \in UpdatePurchaseFieldInputs : updatePurchase(input)
    /\ ops' = ops + 1
    /\ UNCHANGED <<accounts, calls, client>>

UpdTransfer ==
    /\ ops < MaxUpdates
    /\ \E input \in UpdateTransferFieldInputs : updateLocationHistory(input)
    /\ ops' = ops + 1
    /\ UNCHANGED <<accounts, calls, client>>

NextUpdate == UpdLocation \/ UpdSupplier \/ UpdItem \/ UpdPurchase \/ UpdTransfer

SpecUpdate == InitUpdate /\ [][NextUpdate]_vars

\* the row written over stored holds, in each field of fields, the input's
\* value when the input supplies it and the stored value when it does not
SuppliedOrStored(input, stored, written, fields, undefined) ==
    \A f \in fields :
        written[f] = IF input[f] = undefined THEN stored[f] ELSE input[f]

\* the same for a numeric(12,2) field: the supplied amount arrives in cents
SuppliedOrStoredAmount(input, stored, written, f) ==
    written[f] = IF input[f] = UndefinedNum THEN stored[f]
                 ELSE (input[f] + 5) \div 10

\* the rows of a table other than row id are as they were
OtherRowsKept(before, after, id) ==
    /\ DOMAIN after = DOMAIN before
    /\ \A r \in DOMAIN before \ {id} : after[r] = before[r]

\* a successful update wrote the addressed row field by field and left the
\* other rows of its table as they were
AddressedRowWritten ==
    LET input == last'.input
        id == input.id
    IN  /\ (last'.op = "updateLocation" /\ last'.ok) =>
              /\ OtherRowsKept(locations, locations', id)
              /\ SuppliedOrStored(input, locations[id], locations'[id],
                                  {"name", "branch_code", "address"}, Undefined)
        /\ (last'.op = "updateSupplier" /\ last'.ok) =>
              /\ OtherRowsKept(suppliers, suppliers', id)
              /\ SuppliedOrStored(input, suppliers[id], suppliers'[id],
                                  {"name", "contact_person", "phone_number",
                                   "address"}, Undefined)
        /\ (last'.op = "updateInventoryItem" /\ last'.ok) =>
              /\ OtherRowsKept(items, items', id)
              /\ SuppliedOrStored(input, items[id], items'[id],
                                  {"item_code", "name", "description",
                                   "condition"}, Undefined)
              /\ SuppliedOrStored(input, items[id], items'[id],
                                  {"category_id", "location_id", "quantity",
                                   "purchase_date"}, UndefinedNum)
              /\ SuppliedOrStoredAmount(input, items[id], items'[id],
                                        "purchase_price")
        /\ (last'.op = "updatePurchase" /\ last'.ok) =>
              /\ OtherRowsKept(purchases, purchases', id)
              /\ SuppliedOrStored(input, purchases[id], purchases'[id],
                                  {"notes"}, Undefined)
              /\ SuppliedOrStored(input, purchases[id], purchases'[id],
                                  {"item_id", "supplier_id", "quantity",
                                   "purchase_date"}, UndefinedNum)
              /\ SuppliedOrStoredAmount(input, purchases[id], purchases'[id],
                                        "unit_price")
              /\ (input.quantity = UndefinedNum /\ input.unit_price = UndefinedNum) =>
                     purchases'[id].total_price = purchases[id].total_price
        /\ (last'.op = "updateLocationHistory" /\ last'.ok) =>
              /\ OtherRowsKept(history, history', id)
              /\ SuppliedOrStored(input, history[id], history'[id],
                                  {"status", "notes"}, Undefined)
              /\ \A f \in {"transfer_date", "transferred_by", "reason"} :
                     history'[id][f] = history[id][f]

\* item_id, from_location_id and to_location_id of a stored transfer stay
TransferEndpointsKept ==
    \A h \in DOMAIN history \cap DOMAIN history' :
        /\ history'[h].item_id = history[h].item_id
        /\ history'[h].from_location_id = history[h].from_location_id
        /\ history'[h].to_location_id = history[h].to_location_id

\* a successful update leaves the tables it does not address as they were
OtherTablesKept ==
    /\ (last'.op = "updateLocation" /\ last'.ok) =>
           <<categories, suppliers, items, purchases, history>>'
               = <<categories, suppliers, items, purchases, history>>
    /\ (last'.op = "updateSupplier" /\ last'.ok) =>
           <<categories, locations, items, purchases, history>>'
               = <<categories, locations, items, purchases, history>>
    /\ (last'.op = "updateInventoryItem" /\ last'.ok) =>
           <<categories, locations, suppliers, purchases, history>>'
               = <<categories, locations, suppliers, purchases, history>>
    /\ (last'.op = "updatePurchase" /\ last'.ok) =>
           <<categories, locations, suppliers, items, history>>'
               = <<categories, locations, suppliers, items, history>>
    /\ (last'.op = "updateLocationHistory" /\ last'.ok) =>
           <<categories, locations, suppliers, purchases>>'
               = <<categories, locations, suppliers, purchases>>

\* C9 as stated: a successful update changes, in the addressed row only,
\* exactly the supplied fields (and a purchase's total_price when quantity or
\* unit_price is supplied), every other row of every table is unchanged, and
\* a transfer's item_id, from_location_id and to_location_id never change
C9_OnlyAddressedRowChanges ==
    [][/\ AddressedRowWritten
       /\ OtherTablesKept
       /\ (last'.op = "updateLocationHistory" /\ last'.ok) => items' = items
       /\ TransferEndpointsKept
      ]_vars

\* C9 amended: as above, except that an updateLocationHistory that sets
\* status to completed on a transfer stored with another status also sets
\* location_id of the transfer's item to the transfer's to_location_id
C9_OnlyAddressedRowAndMovedItemChange ==
    [][/\ AddressedRowWritten
       /\ OtherTablesKept
       /\ (last'.op = "updateLocationHistory" /\ last'.ok) =>
              LET stored == history[last'.input.id]
              IN  IF last'.input.status = "completed" /\ stored.status # "completed"
                  THEN /\ OtherRowsKept(items, items', stored.item_id)
                       /\ items'[stored.item_id] =
                              [items[stored.item_id] EXCEPT
                                  !.location_id = stored.to_location_id]
                  ELSE items' = items
       /\ TransferEndpointsKept
      ]_vars

\* an updateLocationHistory that supplied status completed and no notes has
\* kept the notes and moved the item away from where the transfer started
C9_Witness ==
    /\ last.op = "updateLocationHistory"
    /\ last.ok
    /\ last.input.status = "completed"
    /\ last.input.notes = Undefined
    /\ last.current.status = "pending"
    /\ history[last.id].status = "completed"
    /\ history[last.id].notes = last.current.notes
    /\ items[last.current.item_id].location_id = last.current.to_location_id
    /\ last.current.to_location_id # last.current.from_location_id

(***************************************************************************)
(* Batch import and item codes: batches of several rows whose names differ *)
(* in case from the stored ones and whose codes repeat, next to the single *)
(* item calls that write item_code                                         *)
(***************************************************************************)
\* rows of a batch
MaxBatch == 2
ImportRows ==
    {BatchRow("IT-1", "HARDWARE", "OFFICE"), BatchRow("IT-1", "Hardware", "Depot"),
     BatchRow("IT-2", "Hardware", "Depot"), BatchRow("IT-2", "HARDWARE", "DEPOT")}

Batches == UNION {[1..n -> ImportRows] : n \in 0..MaxBatch}

ImportBatch ==
    /\ \E rows \in Batches, categoryMap \in NameMaps(categories),
          locationMap \in NameMaps(locations), random \in {0} :
           batchImportItems([items |-> rows], categoryMap, locationMap, random)
    /\ UNCHANGED <<ops, accounts, calls, client>>

ImportCreateLocation ==
    /\ \A l \in DOMAIN locations : toLowerCase(locations[l].name) # "office"
    /\ createLocation([name |-> "Office", branch_code |-> "HQ", address |-> Null])
    /\ UNCHANGED <<ops, accounts, calls, client>>

\* the row of a table stored first
Oldest(table) == CHOOSE r \in DOMAIN table : \A o \in DOMAIN table : r <= o

ImportCreateItem ==
    /\ categories # EmptyTable /\ locations # EmptyTable
    /\ \E code \in ItemCodes :
           createInventoryItem(StoreItem(code, Oldest(categories), Oldest(locations)))
    /\ UNCHANGED <<ops, accounts, calls, client>>

ImportUpdateItem ==
    /\ \E id \in DOMAIN items, code \in ItemCodes :
           updateInventoryItem([NoItemChange(id) EXCEPT !.item_code = code])
    /\ UNCHANGED <<ops, accounts, calls, client>>

NextImport ==
    ImportBatch \/ ImportCreateLocation \/ ImportCreateItem \/ ImportUpdateItem

SpecImport == InitEmpty /\ [][NextImport]_vars

\* row i of a batch repeats a stored item code or the code of an earlier row
RepeatsCode(rows, i) ==
    \/ \E x \in DOMAIN items : items[x].item_code = rows[i].item_code
    \/ \E j \in 1..(i - 1) : rows[j].item_code = rows[i].item_code

\* C11: batchImportItems goes through every row: a failing row becomes one
\* entry of errors with its 1-based position and item code, the rows after it
\* are still imported, success + length(errors) is the number of rows and the
\* number of items grows by success
C11_ImportIsolatesRowFailures ==
    [][last'.op = "batchImportItems" =>
          LET rows == last'.input.items
              success == last'.ret.success
              errors == last'.ret.errors
          IN  /\ last'.ok
              /\ success + Len(errors) = Len(rows)
              /\ Cardinality(DOMAIN items') = Cardinality(DOMAIN items) + success
              /\ \A k \in 1..Len(errors) :
                     /\ errors[k].index \in 1..Len(rows)
                     /\ errors[k].item_code = rows[errors[k].index].item_code
                     /\ k > 1 => errors[k - 1].index < errors[k].index
              /\ \A i \in 1..Len(rows) :
                     IF RepeatsCode(rows, i)
                     THEN \E k \in 1..Len(errors) : errors[k].index = i
                     ELSE \E x \in DOMAIN items' \ DOMAIN items :
                              items'[x].item_code = rows[i].item_code
      ]_vars

\* a batch of two rows whose first row failed and whose second was imported
C11_Witness ==
    /\ last.op = "batchImportItems"
    /\ Len(last.input.items) = 2
    /\ last.ret.success = 1
    /\ Len(last.ret.errors) = 1
    /\ last.ret.errors[1].index = 1
    /\ \E x \in DOMAIN items : items[x].item_code = last.input.items[2].item_code

\* the names the batches use, grouped by what they are when case is ignored
CaseVariants == {{"Hardware", "HARDWARE"}, {"Office", "OFFICE"}, {"Depot", "DEPOT"}}

SameIgnoringCase(a, b) == a = b \/ \E v \in CaseVariants : a \in v /\ b \in v

\* the rows stored before are kept; a name of the batch that matches a stored
\* row adds nothing, one that matches none adds exactly one row, and every
\* added row carries the name of a batch row
NamesResolved(before, after, names) ==
    /\ \A r \in DOMAIN before : r \in DOMAIN after /\ after[r] = before[r]
    /\ \A n \in names :
           LET created == {r \in DOMAIN after \ DOMAIN before :
                              SameIgnoringCase(after[r].name, n)}
           IN  IF \E r \in DOMAIN before : SameIgnoringCase(before[r].name, n)
               THEN created = {}
               ELSE Cardinality(created) = 1
    /\ \A r \in DOMAIN after \ DOMAIN before : after[r].name \in names

\* C12: a batch row's category_name or location_name that matches a stored
\* name case-insensitively is reused and nothing is created; a name that
\* matches none is created and the row's item refers to it; a new name that
\* several rows of the batch carry is created once
C12_ImportResolvesNames ==
    [][last'.op = "batchImportItems" =>
          LET rows == last'.input.items
              First(code) == CHOOSE i \in 1..Len(rows) :
                                 /\ rows[i].item_code = code
                                 /\ \A j \in 1..(i - 1) : rows[j].item_code # code
          IN  /\ NamesResolved(categories, categories',
                               {rows[i].category_name : i \in 1..Len(rows)})
              /\ NamesResolved(locations, locations',
                               {rows[i].location_name : i \in 1..Len(rows)})
              /\ \A x \in DOMAIN items' \ DOMAIN items :
                     LET row == rows[First(items'[x].item_code)]
                     IN  /\ items'[x].category_id \in DOMAIN categories'
                         /\ items'[x].location_id \in DOMAIN locations'
                         /\ SameIgnoringCase(categories'[items'[x].category_id].name,
                                             row.category_name)
                         /\ SameIgnoringCase(locations'[items'[x].location_id].name,
                                             row.location_name)
      ]_vars

\* the first two items ever stored came from one batch whose rows spell the
\* new location Depot and DEPOT and the category Hardware and HARDWARE: one
\* location and one category were created
C12_Witness ==
    /\ last.op = "batchImportItems"
    /\ Len(last.input.items) = 2
    /\ last.ret.success = 2
    /\ seq.items = 3
    /\ last.input.items[1].location_name = "Depot"
    /\ last.input.items[2].location_name = "DEPOT"
    /\ last.input.items[1].category_name = "Hardware"
    /\ last.input.items[2].category_name = "HARDWARE"
    /\ Cardinality({l \in DOMAIN locations : locations[l].name \in {"Depot", "DEPOT"}}) = 1
    /\ Cardinality(DOMAIN categories) = 1
    /\ \A x \in DOMAIN items : items[x].category_id \in DOMAIN categories

\* C14: no two stored items share an item_code; createInventoryItem,
\* updateInventoryItem and a batch row that would repeat a code fail and
\* neither add nor change an item
C14_ItemCodesUnique ==
    [][LET input == last'.input
       IN  /\ \A x, y \in DOMAIN items' :
                  items'[x].item_code = items'[y].item_code => x = y
           /\ (/\ last'.op = "createInventoryItem"
               /\ \E x \in DOMAIN items : items[x].item_code = input.item_code) =>
                  (~last'.ok /\ items' = items)
           /\ (/\ last'.op = "updateInventoryItem"
               /\ input.item_code # Undefined
               /\ \E x \in DOMAIN items \ {input.id} :
                      items[x].item_code = input.item_code) =>
                  (~last'.ok /\ items' = items)
           /\ last'.op = "batchImportItems" =>
                  /\ \A x \in DOMAIN items : x \in DOMAIN items' /\ items'[x] = items[x]
                  /\ \A i \in 1..Len(input.items) :
                         RepeatsCode(input.items, i) =>
                             /\ \E k \in 1..Len(last'.ret.errors) :
                                    last'.ret.errors[k].index = i
                             /\ Cardinality({x \in DOMAIN items' :
                                    items'[x].item_code = input.items[i].item_code}) = 1
      ]_vars

\* updateInventoryItem refused the code of the other stored item
C14_Witness ==
    /\ last.op = "updateInventoryItem"
    /\ ~last.ok
    /\ last.err.kind = "unique"
    /\ last.input.id \in DOMAIN items
    /\ items[last.input.id].item_code # last.input.item_code
    /\ \E x \in DOMAIN items \ {last.input.id} :
           items[x].item_code = last.input.item_code

\* C13: updateLocationHistory that sets a status on a stored transfer
\* succeeds whatever the stored status is, and the transfer then has the
\* status set; completed can be left and entered again
C13_AnyStatusFollowsAnyStatus ==
    [][(/\ last'.op = "updateLocationHistory"
        /\ last'.input.id \in DOMAIN history
        /\ last'.input.status \in {"pending", "in_transit", "completed", "cancelled"}) =>
           /\ last'.ok
           /\ last'.input.id \in DOMAIN history'
           /\ history'[last'.input.id].status = last'.input.status
      ]_vars

\* a completed transfer set back to pending
C13_Witness ==
    /\ last.op = "updateLocationHistory"
    /\ last.ok
    /\ last.current.status = "completed"
    /\ last.input.status = "pending"
    /\ history[last.id].status = "pending"

(***************************************************************************)
(* handlers/users.ts                                                       *)
(***************************************************************************)
userRoleEnum == {"admin", "user"}

\* SHA-256 of password + 'salt_key_totalindo' in hex: one digest per password
hashPassword(password) == <<"sha256", password, "salt_key_totalindo">>

\* new Error('Username already exists') / new Error('Cannot delete the admin user')
UsernameAlreadyExists ==
    [kind |-> "Username already exists", entity |-> "User", id |-> 0]
CannotDeleteAdmin(id) ==
    [kind |-> "Cannot delete the admin user", entity |-> "User", id |-> id]

\* mutant of UsernameTaken: the select finds nothing
UsernameTaken_Never(username) == FALSE

\* select from users where username = input.username
UsernameTaken(username) == \E u \in DOMAIN users : users[u].username = username

createUser(input) ==
    LET id == seq.users
    IN  IF UsernameTaken(input.username)
        THEN /\ Throws("createUser", input, UsernameAlreadyExists)
             /\ UNCHANGED accounts
        ELSE /\ users' = Put(users, id,
                    [username |-> input.username,
                     password_hash |-> hashPassword(input.password),
                     role |-> input.role,
                     is_active |-> TRUE])
             /\ seq' = [seq EXCEPT !.users = id + 1]
             /\ Returns("createUser", input, FALSE, id, NoRow)
             /\ UNCHANGED <<tables, sessions>>

\* deleteUser without the check of the username
deleteUser_AdminNotChecked(id) ==
    /\ sessions' = [t \in {x \in DOMAIN sessions : sessions[x].user_id # id}
                       |-> sessions[t]]
    /\ users' = Remove(users, id)
    /\ Returns("deleteUser", [id |-> id], TRUE, 0, NoRow)
    /\ UNCHANGED <<tables, seq>>

\* deleteUser without the delete from sessions
deleteUser_KeepsSessions(id) ==
    IF id \in DOMAIN users /\ users[id].username = "admin"
    THEN /\ Throws("deleteUser", [id |-> id], CannotDeleteAdmin(id))
         /\ UNCHANGED accounts
    ELSE /\ users' = Remove(users, id)
         /\ Returns("deleteUser", [id |-> id], TRUE, 0, NoRow)
         /\ UNCHANGED <<tables, seq, sessions>>

deleteUser(id) ==
    IF id \in DOMAIN users /\ users[id].username = "admin"
    THEN /\ Throws("deleteUser", [id |-> id], CannotDeleteAdmin(id))
         /\ UNCHANGED accounts
    ELSE /\ sessions' = [t \in {x \in DOMAIN sessions : sessions[x].user_id # id}
                            |-> sessions[t]]
         /\ users' = Remove(users, id)
         /\ Returns("deleteUser", [id |-> id], TRUE, 0, NoRow)
         /\ UNCHANGED <<tables, seq>>

(***************************************************************************)
(* The accounts: every sequence of createUser and deleteUser calls on the  *)
(* store without users                                                     *)
(***************************************************************************)
\* users ever created in a run
MaxUsers == 4

Usernames == {"admin", "ana", "bob"}

CreateUserInputs ==
    [username : Usernames, password : {"secret1", "secret2"}, role : userRoleEnum]

UserCreate ==
    /\ seq.users <= MaxUsers
    /\ \E input \in CreateUserInputs : createUser(input)
    /\ UNCHANGED <<ops, calls, client>>

UserDelete ==
    /\ \E id \in Ids(users, seq.users) : deleteUser(id)
    /\ UNCHANGED <<ops, calls, client>>

NextUsers == UserCreate \/ UserDelete

SpecUsers == InitEmpty /\ [][NextUsers]_vars

\* C15: no two users share a username; createUser with a username that is
\* stored fails with 'Username already exists' and leaves users unchanged
C15_UsernamesUnique ==
    [][/\ \A u, v \in DOMAIN users' :
              users'[u].username = users'[v].username => u = v
       /\ (/\ last'.op = "createUser"
           /\ \E u \in DOMAIN users : users[u].username = last'.input.username) =>
              /\ ~last'.ok
              /\ last'.err.kind = "Username already exists"
              /\ users' = users
      ]_vars

\* createUser refused a stored username offered with another password
C15_Witness ==
    /\ last.op = "createUser"
    /\ ~last.ok
    /\ \E u \in DOMAIN users :
           /\ users[u].username = last.input.username
           /\ users[u].password_hash # <<"sha256", last.input.password, "salt_key_totalindo">>
    /\ Cardinality(DOMAIN users) = 2

(***************************************************************************)
(* Read handlers: a select, the conversion of its rows, and the value      *)
(* returned.  A handler that returns an array without ORDER BY returns the *)
(* set of its rows.                                                        *)
(***************************************************************************)
\* a handler's null
NullResult == [null |-> TRUE]

\* a selected row: the stored columns and the id
RowOf(table, id) == [id |-> id] @@ table[id]

\* { ...item, purchase_price: parseFloat(item.purchase_price) }
ItemOf(id) == [RowOf(items, id) EXCEPT !.purchase_price = ParseFloat(@)]

\* { ...purchase, unit_price: parseFloat(...), total_price: parseFloat(...) }
PurchaseOf(id) ==
    [RowOf(purchases, id) EXCEPT !.unit_price = ParseFloat(@),
                                 !.total_price = ParseFloat(@)]

\* the columns getUsers and getUserById select: no password_hash
UserOf(id) ==
    [id |-> id, username |-> users[id].username, role |-> users[id].role,
     is_active |-> users[id].is_active]

\* ids in descending order: orderBy(desc(created_at), desc(id)), rows being
\* created in the order of their ids
RECURSIVE Descending(_)
Descending(ids) ==
    IF ids = {} THEN <<>>
    ELSE LET top == CHOOSE i \in ids : \A j \in ids : j <= i
         IN  <<top>> \o Descending(ids \ {top})

\* a read returned: nothing is written
Reads(op, input, ret) ==
    /\ Returns(op, input, ret, 0, NoRow)
    /\ UNCHANGED <<tables, seq, accounts>>

getLocations == Reads("getLocations", [id |-> 0],
                      {RowOf(locations, l) : l \in DOMAIN locations})

getLocationById(id) ==
    Reads("getLocationById", [id |-> id],
          IF id \in DOMAIN locations THEN RowOf(locations, id) ELSE NullResult)

getSuppliers == Reads("getSuppliers", [id |-> 0],
                      {RowOf(suppliers, x) : x \in DOMAIN suppliers})

getSupplierById(id) ==
    Reads("getSupplierById", [id |-> id],
          IF id \in DOMAIN suppliers THEN RowOf(suppliers, id) ELSE NullResult)

getInventoryItems == Reads("getInventoryItems", [id |-> 0],
                           {ItemOf(i) : i \in DOMAIN items})

getInventoryItemById(id) ==
    Reads("getInventoryItemById", [id |-> id],
          IF id \in DOMAIN items THEN ItemOf(id) ELSE NullResult)

getInventoryItemByCode(code) ==
    LET results == {i \in DOMAIN items : items[i].item_code = code}
    IN  Reads("getInventoryItemByCode", [code |-> code],
              IF results = {} THEN NullResult
              ELSE ItemOf(CHOOSE i \in results : TRUE))

getPurchases == Reads("getPurchases", [id |-> 0],
                      {PurchaseOf(x) : x \in DOMAIN purchases})

\* mutant of getPurchaseById: a missing purchase is an error
getPurchaseById_MissingIsError(id) ==
    IF id \in DOMAIN purchases
    THEN Reads("getPurchaseById", [id |-> id], PurchaseOf(id))
    ELSE /\ Throws("getPurchaseById", [id |-> id], NotFound("Purchase", id))
         /\ UNCHANGED accounts

getPurchaseById(id) ==
    Reads("getPurchaseById", [id |-> id],
          IF id \in DOMAIN purchases THEN PurchaseOf(id) ELSE NullResult)

getPurchasesByItem(itemId) ==
    Reads("getPurchasesByItem", [itemId |-> itemId],
          {PurchaseOf(x) : x \in {y \in DOMAIN purchases :
                                     purchases[y].item_id = itemId}})

getPurchasesBySupplier(supplierId) ==
    Reads("getPurchasesBySupplier", [supplierId |-> supplierId],
          {PurchaseOf(x) : x \in {y \in DOMAIN purchases :
                                     purchases[y].supplier_id = supplierId}})

getLocationHistory ==
    LET order == Descending(DOMAIN history)
    IN  Reads("getLocationHistory", [id |-> 0],
              [k \in 1..Len(order) |-> RowOf(history, order[k])])

getLocationHistoryById(id) ==
    Reads("getLocationHistoryById", [id |-> id],
          IF id \in DOMAIN history THEN RowOf(history, id) ELSE NullResult)

\* orderBy(desc(transfer_date)): rows of one date come in the store's order
getLocationHistoryByItem(itemId) ==
    Reads("getLocationHistoryByItem", [itemId |-> itemId],
          {RowOf(history, h) : h \in {x \in DOMAIN history :
                                         history[x].item_id = itemId}})

getUsers == Reads("getUsers", [id |-> 0], {UserOf(u) : u \in DOMAIN users})

getUserById(id) ==
    Reads("getUserById", [id |-> id],
          IF id \in DOMAIN users THEN UserOf(id) ELSE NullResult)

(***************************************************************************)
(* Reads: the read handlers called on the empty store and on a store with  *)
(* rows in every table, which deletes then empty row by row                *)
(***************************************************************************)
SeedUsers ==
    (1 :> [username |-> "ana", password_hash |-> hashPassword("secret1"),
           role |-> "user", is_active |-> TRUE])

InitPopulated ==
    /\ categories = SeedCategories /\ locations = SeedLocations
    /\ suppliers = SeedSuppliers /\ items = SeedItems
    /\ purchases = SeedPurchases /\ history = SeedHistory
    /\ users = SeedUsers /\ sessions = EmptyTable
    /\ seq = [categories |-> 2, locations |-> 3, suppliers |-> 3,
              items |-> 3, purchases |-> 2, history |-> 2, users |-> 2]
    /\ last = NoCall
    /\ ops = 0
    /\ calls = NoCalls /\ client = Unmounted

InitRead == InitEmpty \/ InitPopulated

\* the keys read: ids of rows the populated store holds, and one it never held
ReadIds == {1, 2, 3}
ReadCodes == {"IT-1", "IT-9"}

ReadAll ==
    /\ \/ getLocations \/ getSuppliers \/ getInventoryItems \/ getPurchases
       \/ getLocationHistory \/ getUsers
    /\ UNCHANGED <<ops, calls, client>>

ReadById ==
    /\ \E id \in ReadIds :
           \/ getLocationById(id) \/ getSupplierById(id)
           \/ getInventoryItemById(id) \/ getPurchaseById(id)
           \/ getLocationHistoryById(id) \/ getUserById(id)
    /\ UNCHANGED <<ops, calls, client>>

ReadByKey ==
    /\ \/ \E code \in ReadCodes : getInventoryItemByCode(code)
       \/ \E id \in ReadIds :
              \/ getPurchasesByItem(id) \/ getPurchasesBySupplier(id)
              \/ getLocationHistoryByItem(id)
    /\ UNCHANGED <<ops, calls, client>>

ReadDelete ==
    /\ \/ \E id \in DOMAIN purchases : deletePurchase(id)
       \/ \E id \in DOMAIN history : deleteLocationHistory(id)
       \/ \E id \in DOMAIN items : deleteInventoryItem(id)
       \/ \E id \in DOMAIN suppliers : deleteSupplier(id)
       \/ \E id \in DOMAIN locations : deleteLocation(id)
    /\ UNCHANGED <<ops, accounts, calls, client>>

ReadDeleteUser ==
    /\ \E id \in DOMAIN users : deleteUser(id)
    /\ UNCHANGED <<ops, calls, client>>

NextRead == ReadAll \/ ReadById \/ ReadByKey \/ ReadDelete \/ ReadDeleteUser

SpecRead == InitRead /\ [][NextRead]_vars

GetAllOps ==
    {"getLocations", "getSuppliers", "getInventoryItems", "getPurchases",
     "getLocationHistory", "getUsers"}
GetByIdOps ==
    {"getLocationById", "getSupplierById", "getInventoryItemById",
     "getPurchaseById", "getLocationHistoryById", "getUserById"}

\* the table a read handler selects from
TableRead(op) ==
    CASE op \in {"getLocations", "getLocationById"} -> locations
      [] op \in {"getSuppliers", "getSupplierById"} -> suppliers
      [] op \in {"getInventoryItems", "getInventoryItemById",
                 "getInventoryItemByCode"} -> items
      [] op \in {"getPurchases", "getPurchaseById"} -> purchases
      [] op \in {"getLocationHistory", "getLocationHistoryById"} -> history
      [] op \in {"getUsers", "getUserById"} -> users

\* C16: a read never fails on absence and never changes the store: getAll on
\* an empty table returns an empty collection, get-by-id and
\* getInventoryItemByCode for a key that matches no row return null
C16_ReadsTolerateAbsence ==
    [][(last'.op \in GetAllOps \cup GetByIdOps \cup {"getInventoryItemByCode"}) =>
          /\ last'.ok
          /\ tables' = tables /\ accounts' = accounts
          /\ (last'.op \in GetAllOps /\ DOMAIN TableRead(last'.op) = {}) =>
                 last'.ret = IF last'.op = "getLocationHistory" THEN <<>> ELSE {}
          /\ (last'.op \in GetByIdOps /\ last'.input.id \notin DOMAIN TableRead(last'.op)) =>
                 last'.ret = [null |-> TRUE]
          /\ (/\ last'.op = "getInventoryItemByCode"
              /\ \A i \in DOMAIN items : items[i].item_code # last'.input.code) =>
                 last'.ret = [null |-> TRUE]
      ]_vars

\* getPurchaseById returned null for the id of a purchase deleted before
C16_Witness ==
    /\ last.op = "getPurchaseById"
    /\ last.ok
    /\ last.input.id \notin DOMAIN purchases
    /\ last.input.id < seq.purchases
    /\ last.ret = [null |-> TRUE]

(***************************************************************************)
(* handlers/reports.ts                                                     *)
(***************************************************************************)
\* a filter that supplies nothing: {}
NoInventoryFilter ==
    [category_id |-> UndefinedNum, location_id |-> UndefinedNum,
     condition |-> Undefined, date_from |-> UndefinedNum, date_to |-> UndefinedNum]

NoHistoryFilter ==
    [item_id |-> UndefinedNum, location_id |-> UndefinedNum,
     status |-> Undefined, date_from |-> UndefinedNum, date_to |-> UndefinedNum]

\* the rows of inventory_items inner-joined with categories and locations
JoinedItems ==
    {i \in DOMAIN items : /\ items[i].category_id \in DOMAIN categories
                          /\ items[i].location_id \in DOMAIN locations}

\* the rows of location_history inner-joined with inventory_items and with
\* locations on to_location_id
JoinedHistory ==
    {h \in DOMAIN history : /\ history[h].item_id \in DOMAIN items
                            /\ history[h].to_location_id \in DOMAIN locations}

\* the conditions array of generateInventoryReport and of
\* generateInventorySummary, joined with and(...): one condition per filter
\* field that is not undefined
InventoryConditions(filter, item) ==
    /\ filter.category_id # UndefinedNum => item.category_id = filter.category_id
    /\ filter.location_id # UndefinedNum => item.location_id = filter.location_id
    /\ filter.condition # Undefined => item.condition = filter.condition
    /\ filter.date_from # UndefinedNum => item.purchase_date >= filter.date_from
    /\ filter.date_to # UndefinedNum => item.purchase_date <= filter.date_to

\* mutant of HistoryConditions: location_id selects the transfers that touch
\* the location at either end
HistoryConditions_EitherEnd(filter, transfer) ==
    /\ filter.item_id # UndefinedNum => transfer.item_id = filter.item_id
    /\ filter.location_id # UndefinedNum =>
           filter.location_id \in {transfer.from_location_id, transfer.to_location_id}
    /\ filter.status # Undefined => transfer.status = filter.status
    /\ filter.date_from # UndefinedNum => transfer.transfer_date >= filter.date_from
    /\ filter.date_to # UndefinedNum => transfer.transfer_date <= filter.date_to

\* the conditions array of generateLocationHistoryReport
HistoryConditions(filter, transfer) ==
    /\ filter.item_id # UndefinedNum => transfer.item_id = filter.item_id
    /\ filter.location_id # UndefinedNum => transfer.to_location_id = filter.location_id
    /\ filter.status # Undefined => transfer.status = filter.status
    /\ filter.date_from # UndefinedNum => transfer.transfer_date >= filter.date_from
    /\ filter.date_to # UndefinedNum => transfer.transfer_date <= filter.date_to

\* mutant of ReportedItems: the condition filter is not applied
ReportedItems_AnyCondition(filter) ==
    {i \in JoinedItems :
        InventoryConditions([filter EXCEPT !.condition = Undefined], items[i])}

\* the ids of the rows query.execute() returns for an inventory filter
ReportedItems(filter) ==
    {i \in JoinedItems : InventoryConditions(filter, items[i])}

generateInventoryReport(filter) ==
    Reads("generateInventoryReport", filter,
          {ItemOf(i) : i \in ReportedItems(filter)})

generateLocationHistoryReport(filter) ==
    Reads("generateLocationHistoryReport", filter,
          {RowOf(history, h) :
              h \in {j \in JoinedHistory : HistoryConditions(filter, history[j])}})

\* The values a breakdown object of generateInventorySummary can hold: a
\* number, or the string that + builds once its left operand is not a number
\* (the text of the string is not modelled).
JsNumber(n) == [type |-> "number", value |-> n]
JsString == [type |-> "string", value |-> 0]

\* the property names an object created by {} inherits from Object.prototype
ObjectPrototypeKeys ==
    {"constructor", "toString", "valueOf", "hasOwnProperty", "isPrototypeOf",
     "propertyIsEnumerable", "toLocaleString"}

\* (record[key] || 0) + quantity, record being created by {}: an own property
\* is read first, then the prototype's, and a key found in neither reads
\* undefined; undefined and 0 are falsy and give 0, a function or a string is
\* truthy and + concatenates
Counted(record, key, quantity) ==
    IF key \in DOMAIN record
    THEN IF record[key].type = "number"
         THEN JsNumber(record[key].value + quantity)
         ELSE JsString
    ELSE IF key \in ObjectPrototypeKeys THEN JsString
    ELSE JsNumber(0 + quantity)

\* results.forEach(item => ...): the running totals and breakdowns after the
\* rows ids, visited in the order of their ids
RECURSIVE Tally(_, _)
Tally(ids, acc) ==
    IF ids = {} THEN acc
    ELSE LET i == CHOOSE j \in ids : \A k \in ids : j <= k
             quantity == items[i].quantity
             price == ParseFloat(items[i].purchase_price)
             value == quantity * price
         IN  Tally(ids \ {i},
                 [totalItems |-> acc.totalItems + quantity,
                  totalValue |-> acc.totalValue + value,
                  itemsByCategory |->
                      Put(acc.itemsByCategory, categories[items[i].category_id].name,
                          Counted(acc.itemsByCategory,
                                  categories[items[i].category_id].name, quantity)),
                  itemsByLocation |->
                      Put(acc.itemsByLocation, locations[items[i].location_id].name,
                          Counted(acc.itemsByLocation,
                                  locations[items[i].location_id].name, quantity)),
                  itemsByCondition |->
                      Put(acc.itemsByCondition, items[i].condition,
                          Counted(acc.itemsByCondition, items[i].condition, quantity))])

\* let totalItems = 0; let totalValue = 0; const itemsBy... = {}
EmptySummary ==
    [totalItems |-> 0, totalValue |-> 0, itemsByCategory |-> EmptyTable,
     itemsByLocation |-> EmptyTable, itemsByCondition |-> EmptyTable]

generateInventorySummary(filter) ==
    Reads("generateInventorySummary", filter,
          Tally(ReportedItems(filter), EmptySummary))

(***************************************************************************)
(* Reports: the report queries called on the empty store and on the seeded *)
(* store while locations, items and transfers are added.  ops counts the   *)
(* rows added.                                                             *)
(***************************************************************************)
MaxReportRows == 2

InitReport == InitEmpty \/ InitSeeded

\* names of the locations added; "constructor" passes z.string().min(1)
ReportLocationNames == {"Depot", "constructor"}

\* the items added: five damaged ones bought on day 3 or two good ones bought
\* on day 2, at the oldest or at the newest location
ReportItems ==
    {[StoreItem("IT-3", c, l) EXCEPT !.condition = "damaged", !.quantity = 5,
                                     !.purchase_price = 1200000,
                                     !.purchase_date = 3] :
         c \in DOMAIN categories, l \in {1, seq.locations - 1}}
    \cup {[StoreItem("IT-3", c, l) EXCEPT !.quantity = 2, !.purchase_price = 100500,
                                          !.purchase_date = 2] :
              c \in DOMAIN categories, l \in {1, seq.locations - 1}}

\* the transfers added, of item 1 between the first two locations: pending
\* on day 1 or completed on day 3
ReportTransfers ==
    {[StoreTransfer(1, f, t, "pending") EXCEPT !.transfer_date = 1] :
        f \in {NullId, 1}, t \in {1, 2}}
    \cup {[StoreTransfer(1, f, t, "completed") EXCEPT !.transfer_date = 3] :
              f \in {NullId, 1}, t \in {1, 2}}

\* the filters the reports are called with: the empty filter, each field on
\* its own (with an id of a stored row and with one of no row), and
\* combinations of two, three and all five fields
InventoryFilters ==
    {NoInventoryFilter}
    \cup {[NoInventoryFilter EXCEPT !.category_id = c] : c \in {1, 2}}
    \cup {[NoInventoryFilter EXCEPT !.location_id = l] : l \in {1, 3}}
    \cup {[NoInventoryFilter EXCEPT !.condition = k] : k \in {"good", "damaged"}}
    \cup {[NoInventoryFilter EXCEPT !.date_from = 2],
          [NoInventoryFilter EXCEPT !.date_to = 2],
          [NoInventoryFilter EXCEPT !.date_from = 2, !.date_to = 2],
          [NoInventoryFilter EXCEPT !.condition = "good", !.date_from = 2,
                                    !.date_to = 3],
          [NoInventoryFilter EXCEPT !.category_id = 1, !.location_id = 3],
          [category_id |-> 1, location_id |-> 1, condition |-> "good",
           date_from |-> 1, date_to |-> 2]}

HistoryFilters ==
    {NoHistoryFilter}
    \cup {[NoHistoryFilter EXCEPT !.location_id = l] : l \in {1, 2, 3}}
    \cup {[NoHistoryFilter EXCEPT !.item_id = 1],
          [NoHistoryFilter EXCEPT !.status = "completed"],
          [NoHistoryFilter EXCEPT !.date_from = 2],
          [NoHistoryFilter EXCEPT !.location_id = 1, !.status = "completed"],
          [NoHistoryFilter EXCEPT !.location_id = 2, !.date_to = 2],
          [item_id |-> 1, location_id |-> 1, status |-> "pending",
           date_from |-> 1, date_to |-> 3]}

ReportCreateLocation ==
    /\ ops < MaxReportRows
    /\ \E name \in ReportLocationNames :
           createLocation([name |-> name, branch_code |-> "BR", address |-> Null])
    /\ ops' = ops + 1
    /\ UNCHANGED <<accounts, calls, client>>

ReportCreateItem ==
    /\ ops < MaxReportRows
    /\ \E input \in ReportItems : createInventoryItem(input)
    /\ ops' = ops + 1
    /\ UNCHANGED <<accounts, calls, client>>

ReportCreateTransfer ==
    /\ ops < MaxReportRows
    /\ \E input \in ReportTransfers : createLocationHistory(input)
    /\ ops' = ops + 1
    /\ UNCHANGED <<accounts, calls, client>>

ReportInventory ==
    /\ \E filter \in InventoryFilters : generateInventoryReport(filter)
    /\ UNCHANGED <<ops, calls, client>>

ReportSummary ==
    /\ \E filter \in InventoryFilters : generateInventorySummary(filter)
    /\ UNCHANGED <<ops, calls, client>>

ReportHistory ==
    /\ \E filter \in HistoryFilters : generateLocationHistoryReport(filter)
    /\ UNCHANGED <<ops, calls, client>>

NextReport ==
    \/ ReportCreateLocation \/ ReportCreateItem \/ ReportCreateTransfer
    \/ ReportInventory \/ ReportSummary \/ ReportHistory

SpecReport == InitReport /\ [][NextReport]_vars

\* C18: generateInventoryReport returns exactly the stored items that satisfy
\* every supplied filter (category_id, location_id and condition equal,
\* purchase_date from date_from to date_to); a filter field left out restricts
\* nothing, the empty filter returns every item, and no row changes
C18_InventoryReportAppliesEveryFilter ==
    [][last'.op = "generateInventoryReport" =>
          LET f == last'.input
          IN  /\ last'.ok
              /\ {r.id : r \in last'.ret} =
                    {i \in DOMAIN items :
                        /\ f.category_id = UndefinedNum
                              \/ items[i].category_id = f.category_id
                        /\ f.location_id = UndefinedNum
                              \/ items[i].location_id = f.location_id
                        /\ f.condition = Undefined
                              \/ items[i].condition = f.condition
                        /\ f.date_from = UndefinedNum
                              \/ items[i].purchase_date >= f.date_from
                        /\ f.date_to = UndefinedNum
                              \/ items[i].purchase_date <= f.date_to}
              /\ \A r \in last'.ret :
                    r = [id |-> r.id] @@
                        [items[r.id] EXCEPT !.purchase_price = @ * 10]
              /\ f = NoInventoryFilter =>
                    {r.id : r \in last'.ret} = DOMAIN items
              /\ tables' = tables /\ accounts' = accounts
      ]_vars

\* a report filtered by condition and by both dates that returns one of three
\* stored items
C18_Witness ==
    /\ last.op = "generateInventoryReport"
    /\ last.input.condition = "good"
    /\ last.input.date_from = 2 /\ last.input.date_to = 3
    /\ Cardinality(DOMAIN items) = 3
    /\ {r.id : r \in last.ret} = {3}

\* the stored items that satisfy every field an inventory filter supplies
MatchingItems(f) ==
    {i \in DOMAIN items :
        /\ f.category_id = UndefinedNum \/ items[i].category_id = f.category_id
        /\ f.location_id = UndefinedNum \/ items[i].location_id = f.location_id
        /\ f.condition = Undefined \/ items[i].condition = f.condition
        /\ f.date_from = UndefinedNum \/ items[i].purchase_date >= f.date_from
        /\ f.date_to = UndefinedNum \/ items[i].purchase_date <= f.date_to}

\* the sum of quantity, and of quantity x purchase_price (in thousandths), over
\* a set of stored items
RECURSIVE QuantityOf(_)
QuantityOf(ids) ==
    IF ids = {} THEN 0
    ELSE LET i == CHOOSE j \in ids : TRUE
         IN  items[i].quantity + QuantityOf(ids \ {i})

RECURSIVE ValueOf(_)
ValueOf(ids) ==
    IF ids = {} THEN 0
    ELSE LET i == CHOOSE j \in ids : TRUE
         IN  items[i].quantity * (items[i].purchase_price * 10) + ValueOf(ids \ {i})

\* the sum of the values of a breakdown whose values are all numbers
RECURSIVE SumOfValues(_)
SumOfValues(breakdown) ==
    IF DOMAIN breakdown = {} THEN 0
    ELSE LET k == CHOOSE j \in DOMAIN breakdown : TRUE
         IN  breakdown[k].value
             + SumOfValues([j \in DOMAIN breakdown \ {k} |-> breakdown[j]])

AddsUpTo(breakdown, total) ==
    /\ \A k \in DOMAIN breakdown : breakdown[k].type = "number"
    /\ SumOfValues(breakdown) = total

\* C19: generateInventorySummary returns totalItems = the sum of quantity and
\* totalValue = the sum of quantity x purchase_price over the items matching
\* the filter; the values of itemsByCategory, of itemsByLocation and of
\* itemsByCondition each sum to totalItems; when no item matches, both totals
\* are 0 and the three breakdowns are empty
C19_SummaryAddsUp ==
    [][last'.op = "generateInventorySummary" =>
          LET matching == MatchingItems(last'.input)
              summary == last'.ret
          IN  /\ summary.totalItems = QuantityOf(matching)
              /\ summary.totalValue = ValueOf(matching)
              /\ AddsUpTo(summary.itemsByCategory, summary.totalItems)
              /\ AddsUpTo(summary.itemsByLocation, summary.totalItems)
              /\ AddsUpTo(summary.itemsByCondition, summary.totalItems)
              /\ matching = {} =>
                    /\ summary.totalItems = 0 /\ summary.totalValue = 0
                    /\ DOMAIN summary.itemsByCategory = {}
                    /\ DOMAIN summary.itemsByLocation = {}
                    /\ DOMAIN summary.itemsByCondition = {}
      ]_vars

\* the same summary property where no matching item's category or location
\* bears a name that Object.prototype defines
C19_SummaryAddsUpForPlainNames ==
    [][(/\ last'.op = "generateInventorySummary"
        /\ \A i \in MatchingItems(last'.input) :
              /\ categories[items[i].category_id].name \notin ObjectPrototypeKeys
              /\ locations[items[i].location_id].name \notin ObjectPrototypeKeys) =>
          LET matching == MatchingItems(last'.input)
              summary == last'.ret
          IN  /\ summary.totalItems = QuantityOf(matching)
              /\ summary.totalValue = ValueOf(matching)
              /\ AddsUpTo(summary.itemsByCategory, summary.totalItems)
              /\ AddsUpTo(summary.itemsByLocation, summary.totalItems)
              /\ AddsUpTo(summary.itemsByCondition, summary.totalItems)
              /\ matching = {} =>
                    /\ summary.totalItems = 0 /\ summary.totalValue = 0
                    /\ DOMAIN summary.itemsByCategory = {}
                    /\ DOMAIN summary.itemsByLocation = {}
                    /\ DOMAIN summary.itemsByCondition = {}
      ]_vars

\* a summary over three items, two of them at locations of the same name
C19_PlainNamesWitness ==
    /\ last.op = "generateInventorySummary"
    /\ last.input = NoInventoryFilter
    /\ Cardinality(DOMAIN items) = 3
    /\ last.ret.totalItems = 15
    /\ Cardinality(DOMAIN last.ret.itemsByLocation) = 1

\* C20: generateLocationHistoryReport with a location_id filter returns
\* exactly the transfers whose to_location_id is that id and that satisfy the
\* item_id, status and transfer_date filters supplied with it; a transfer that
\* has the location only as its from_location_id is not returned
C20_LocationFilterSelectsDestination ==
    [][(/\ last'.op = "generateLocationHistoryReport"
        /\ last'.input.location_id # UndefinedNum) =>
          LET f == last'.input
          IN  /\ last'.ok
              /\ {r.id : r \in last'.ret} =
                    {h \in DOMAIN history :
                        /\ history[h].to_location_id = f.location_id
                        /\ f.item_id = UndefinedNum \/ history[h].item_id = f.item_id
                        /\ f.status = Undefined \/ history[h].status = f.status
                        /\ f.date_from = UndefinedNum
                              \/ history[h].transfer_date >= f.date_from
                        /\ f.date_to = UndefinedNum
                              \/ history[h].transfer_date <= f.date_to}
              /\ \A r \in last'.ret : r = [id |-> r.id] @@ history[r.id]
              /\ \A h \in DOMAIN history :
                    (/\ history[h].from_location_id = f.location_id
                     /\ history[h].to_location_id # f.location_id) =>
                        h \notin {r.id : r \in last'.ret}
      ]_vars

\* a report for location 1 that returns a transfer into it and leaves out a
\* transfer that starts from it
C20_Witness ==
    /\ last.op = "generateLocationHistoryReport"
    /\ last.input.location_id = 1
    /\ last.ret # {}
    /\ \E h \in DOMAIN history :
          /\ history[h].from_location_id = 1
          /\ history[h].to_location_id = 2
          /\ h \notin {r.id : r \in last.ret}

(***************************************************************************)
(* Interleaved updatePurchase calls.  A handler runs up to its next await  *)
(* in one step; between two steps of a call any other caller may run.      *)
(***************************************************************************)
\* purchase.unit_price read from results[0] when the UPDATE matched no row
TypeError(id) == [kind |-> "type_error", entity |-> "undefined", id |-> id]

\* the call stands at pc, holding its input and the row it read
Proceeds(c, pc, op, input, current) ==
    calls' = [calls EXCEPT ![c] = [pc |-> pc, op |-> op, input |-> input,
                                   current |-> current]]

\* the call returned or threw
Finishes(c) == calls' = [calls EXCEPT ![c] = Idle]

\* db.update(purchasesTable).set(updateValues): the supplied columns are
\* written over the row as stored at the time of the UPDATE; total_price is
\* the one computed from the input and the row read at the start of the call
SetPurchase(input, currentPurchase, stored) ==
    LET computed == UpdatedPurchase(input, currentPurchase)
    IN  [stored EXCEPT
            !.item_id = SetNum(input.item_id, @),
            !.supplier_id = SetNum(input.supplier_id, @),
            !.quantity = SetNum(input.quantity, @),
            !.unit_price = IF input.unit_price # UndefinedNum
                           THEN computed.unit_price ELSE @,
            !.purchase_date = SetNum(input.purchase_date, @),
            !.notes = SetText(input.notes, @),
            !.total_price = IF input.quantity # UndefinedNum
                               \/ input.unit_price # UndefinedNum
                            THEN computed.total_price ELSE @]

\* const existing = await db.select().from(purchasesTable).where(id)
updatePurchase_Select(c, input) ==
    /\ calls[c].pc = "idle"
    /\ IF input.id \notin DOMAIN purchases
       THEN /\ Throws("updatePurchase", input, DoesNotExist("Purchase", input.id))
            /\ UNCHANGED calls
       ELSE /\ Proceeds(c, "selected", "updatePurchase", input, purchases[input.id])
            /\ UNCHANGED <<tables, seq, last>>

\* whether the call looks up an item or a supplier before it writes
VerifiesReferences(input) ==
    input.item_id # UndefinedNum \/ input.supplier_id # UndefinedNum

\* the selects of the item and of the supplier, when the input supplies them
updatePurchase_Verify(c) ==
    LET input == calls[c].input
    IN  /\ calls[c].op = "updatePurchase" /\ calls[c].pc = "selected"
        /\ VerifiesReferences(input)
        /\ IF input.item_id # UndefinedNum /\ input.item_id \notin DOMAIN items
           THEN /\ Throws("updatePurchase", input,
                          DoesNotExist("Inventory item", input.item_id))
                /\ Finishes(c)
           ELSE IF input.supplier_id # UndefinedNum
                   /\ input.supplier_id \notin DOMAIN suppliers
           THEN /\ Throws("updatePurchase", input,
                          DoesNotExist("Supplier", input.supplier_id))
                /\ Finishes(c)
           ELSE /\ Proceeds(c, "verified", "updatePurchase", input, calls[c].current)
                /\ UNCHANGED <<tables, seq, last>>

\* await db.update(purchasesTable).set(updateValues).where(id).returning()
updatePurchase_Set(c) ==
    LET input == calls[c].input
    IN  /\ calls[c].op = "updatePurchase"
        /\ \/ calls[c].pc = "verified"
           \/ calls[c].pc = "selected" /\ ~VerifiesReferences(input)
        /\ Finishes(c)
        /\ IF input.id \notin DOMAIN purchases
           THEN Throws("updatePurchase", input, TypeError(input.id))
           ELSE /\ purchases' = Put(purchases, input.id,
                        SetPurchase(input, calls[c].current, purchases[input.id]))
                /\ Returns("updatePurchase", input, FALSE, input.id, calls[c].current)
                /\ UNCHANGED <<categories, locations, suppliers, items, history, seq>>

\* calls started in a run
MaxRaceCalls == 3

\* updatePurchase inputs with prices in whole cents: quantity alone,
\* unit_price alone, both, and a supplier (stored or not) alone
RaceUpdates ==
    {[NoPurchaseChange(1) EXCEPT !.quantity = 3],
     [NoPurchaseChange(1) EXCEPT !.unit_price = 2500],
     [NoPurchaseChange(1) EXCEPT !.quantity = 4, !.unit_price = 1500],
     [NoPurchaseChange(1) EXCEPT !.supplier_id = 2],
     [NoPurchaseChange(1) EXCEPT !.supplier_id = 3]}

RaceSelect ==
    /\ ops < MaxRaceCalls
    /\ \E c \in Callers, input \in RaceUpdates : updatePurchase_Select(c, input)
    /\ ops' = ops + 1
    /\ UNCHANGED <<accounts, client>>

RaceVerify ==
    /\ \E c \in Callers : updatePurchase_Verify(c)
    /\ UNCHANGED <<ops, accounts, client>>

RaceSet ==
    /\ \E c \in Callers : updatePurchase_Set(c)
    /\ UNCHANGED <<ops, accounts, client>>

RaceDelete ==
    /\ \E id \in DOMAIN purchases : deletePurchase(id)
    /\ UNCHANGED <<ops, accounts, calls, client>>

NextRace == RaceSelect \/ RaceVerify \/ RaceSet \/ RaceDelete

SpecRace == InitUpdate /\ [][NextRace]_vars

\* C21: once the interleaved updatePurchase calls on a purchase have all
\* finished, the stored row satisfies total_price = quantity x unit_price
C21_InterleavedUpdatesKeepTotal ==
    (\A c \in Callers : calls[c].pc = "idle") =>
        \A p \in DOMAIN purchases :
            purchases[p].total_price = purchases[p].quantity * purchases[p].unit_price

(***************************************************************************)
(* createLocationHistory and updateLocationHistory step by step: each      *)
(* statement sent to the store is a step of its own, no transaction joins  *)
(* them, and a statement may fail in the store.                            *)
(***************************************************************************)
\* an error of the store while it runs a statement (connection lost,
\* statement cancelled), rethrown by the handler's catch block
StoreFailure(entity, id) == [kind |-> "store_failure", entity |-> entity, id |-> id]

\* the call threw; what it wrote before stays
Raises(op, input, err) ==
    last' = [op |-> op, input |-> input, ok |-> FALSE, err |-> err,
             ret |-> FALSE, id |-> 0, current |-> NoRow]

\* the selects of the item, of to_location and of from_location
createLocationHistory_Validate(c, input) ==
    /\ calls[c].pc = "idle"
    /\ IF input.item_id \notin DOMAIN items
       THEN /\ Throws("createLocationHistory", input,
                      DoesNotExist("Item", input.item_id))
            /\ UNCHANGED calls
       ELSE IF input.to_location_id \notin DOMAIN locations
       THEN /\ Throws("createLocationHistory", input,
                      DoesNotExist("Location", input.to_location_id))
            /\ UNCHANGED calls
       ELSE IF input.from_location_id # NullId
               /\ input.from_location_id \notin DOMAIN locations
       THEN /\ Throws("createLocationHistory", input,
                      DoesNotExist("Location", input.from_location_id))
            /\ UNCHANGED calls
       ELSE /\ Proceeds(c, "validated", "createLocationHistory", input, NoRow)
            /\ UNCHANGED <<tables, seq, last>>

\* await db.insert(locationHistoryTable).values(...).returning(); a call
\* whose status is not completed returns here
createLocationHistory_Insert(c) ==
    LET input == calls[c].input
        id == seq.history
    IN  /\ calls[c].op = "createLocationHistory" /\ calls[c].pc = "validated"
        /\ IF \/ input.item_id \notin DOMAIN items
              \/ input.to_location_id \notin DOMAIN locations
           THEN /\ Throws("createLocationHistory", input,
                          ForeignKeyViolation("location_history", 0))
                /\ Finishes(c)
           ELSE /\ history' = Put(history, id,
                       [item_id |-> input.item_id,
                        from_location_id |-> input.from_location_id,
                        to_location_id |-> input.to_location_id,
                        transfer_date |-> input.transfer_date,
                        transferred_by |-> input.transferred_by,
                        reason |-> input.reason,
                        status |-> input.status,
                        notes |-> input.notes])
                /\ seq' = [seq EXCEPT !.history = id + 1]
                /\ UNCHANGED <<categories, locations, suppliers, items, purchases>>
                /\ IF input.status = "completed"
                   THEN /\ Proceeds(c, "inserted", "createLocationHistory", input,
                                    [id |-> id])
                        /\ UNCHANGED last
                   ELSE /\ Returns("createLocationHistory", input, FALSE, id, NoRow)
                        /\ Finishes(c)

\* await db.update(inventoryItemsTable).set({location_id: input.to_location_id})
\* and the return that follows it
createLocationHistory_MoveItem(c) ==
    LET input == calls[c].input
    IN  /\ calls[c].op = "createLocationHistory" /\ calls[c].pc = "inserted"
        /\ items' = WithLocation(input.item_id, input.to_location_id)
        /\ Returns("createLocationHistory", input, FALSE, calls[c].current.id, NoRow)
        /\ Finishes(c)
        /\ UNCHANGED <<categories, locations, suppliers, purchases, history, seq>>

\* mutant of createLocationHistory_MoveItemFails: the failure is compensated
\* by taking the inserted row out again
createLocationHistory_MoveItemFails_RollsBack(c) ==
    /\ calls[c].op = "createLocationHistory" /\ calls[c].pc = "inserted"
    /\ history' = Remove(history, calls[c].current.id)
    /\ Raises("createLocationHistory", calls[c].input,
              StoreFailure("inventory_items", calls[c].input.item_id))
    /\ Finishes(c)
    /\ UNCHANGED <<categories, locations, suppliers, items, purchases, seq>>

\* the same statement failing in the store: the catch block logs and rethrows
createLocationHistory_MoveItemFails(c) ==
    /\ calls[c].op = "createLocationHistory" /\ calls[c].pc = "inserted"
    /\ Throws("createLocationHistory", calls[c].input,
              StoreFailure("inventory_items", calls[c].input.item_id))
    /\ Finishes(c)

\* const currentRecord = await db.select().from(locationHistoryTable).where(id)
updateLocationHistory_Select(c, input) ==
    /\ calls[c].pc = "idle"
    /\ IF input.id \notin DOMAIN history
       THEN /\ Throws("updateLocationHistory", input,
                      DoesNotExist("Location history", input.id))
            /\ UNCHANGED calls
       ELSE /\ Proceeds(c, "selected", "updateLocationHistory", input,
                        history[input.id])
            /\ UNCHANGED <<tables, seq, last>>

\* const result = await db.update(locationHistoryTable).set({status, notes})
\* .where(id).returning(): result is empty when the row is gone.  A call that
\* has no item to move goes on to read result[0] and returns or throws here.
updateLocationHistory_Set(c) ==
    LET input == calls[c].input
        current == calls[c].current
        found == input.id \in DOMAIN history
    IN  /\ calls[c].op = "updateLocationHistory" /\ calls[c].pc = "selected"
        /\ history' = IF found
                      THEN [history EXCEPT
                               ![input.id].status = SetText(input.status, @),
                               ![input.id].notes = SetText(input.notes, @)]
                      ELSE history
        /\ UNCHANGED <<categories, locations, suppliers, items, purchases, seq>>
        /\ IF MovesItem(input, current)
           THEN /\ Proceeds(c, IF found THEN "set" ELSE "set_none",
                            "updateLocationHistory", input, current)
                /\ UNCHANGED last
           ELSE /\ Finishes(c)
                /\ IF found
                   THEN Returns("updateLocationHistory", input, FALSE, input.id, current)
                   ELSE Raises("updateLocationHistory", input, TypeError(input.id))

\* await db.update(inventoryItemsTable).set({location_id: current.to_location_id})
\* .where(id = current.item_id), then const record = result[0] and the return,
\* which throws when result is empty
updateLocationHistory_MoveItem(c) ==
    LET input == calls[c].input
        current == calls[c].current
    IN  /\ calls[c].op = "updateLocationHistory"
        /\ calls[c].pc \in {"set", "set_none"}
        /\ items' = WithLocation(current.item_id, current.to_location_id)
        /\ UNCHANGED <<categories, locations, suppliers, purchases, history, seq>>
        /\ Finishes(c)
        /\ IF calls[c].pc = "set"
           THEN Returns("updateLocationHistory", input, FALSE, input.id, current)
           ELSE Raises("updateLocationHistory", input, TypeError(input.id))

\* the same statement failing in the store
updateLocationHistory_MoveItemFails(c) ==
    /\ calls[c].op = "updateLocationHistory"
    /\ calls[c].pc \in {"set", "set_none"}
    /\ Throws("updateLocationHistory", calls[c].input,
              StoreFailure("inventory_items", calls[c].current.item_id))
    /\ Finishes(c)

\* calls started in a run
MaxStepCalls == 2

\* transfers of item 1, pending or completed, to either location
StepCreates ==
    {StoreTransfer(1, NullId, t, st) : t \in {1, 2}, st \in {"pending", "completed"}}

\* updates of a stored transfer to completed or to cancelled
StepUpdates ==
    {[id |-> id, status |-> st, notes |-> Undefined] :
        id \in 1..2, st \in {"completed", "cancelled"}}

StepCreateValidate ==
    /\ ops < MaxStepCalls
    /\ \E c \in Callers, input \in StepCreates :
           createLocationHistory_Validate(c, input)
    /\ ops' = ops + 1
    /\ UNCHANGED <<accounts, client>>

StepCreateInsert ==
    /\ \E c \in Callers : createLocationHistory_Insert(c)
    /\ UNCHANGED <<ops, accounts, client>>

StepCreateMoveItem ==
    /\ \E c \in Callers : createLocationHistory_MoveItem(c)
    /\ UNCHANGED <<ops, accounts, client>>

StepCreateMoveItemFails ==
    /\ \E c \in Callers : createLocationHistory_MoveItemFails(c)
    /\ UNCHANGED <<ops, accounts, client>>

StepUpdateSelect ==
    /\ ops < MaxStepCalls
    /\ \E c \in Callers, input \in StepUpdates :
           updateLocationHistory_Select(c, input)
    /\ ops' = ops + 1
    /\ UNCHANGED <<accounts, client>>

StepUpdateSet ==
    /\ \E c \in Callers : updateLocationHistory_Set(c)
    /\ UNCHANGED <<ops, accounts, client>>

StepUpdateMoveItem ==
    /\ \E c \in Callers : updateLocationHistory_MoveItem(c)
    /\ UNCHANGED <<ops, accounts, client>>

StepUpdateMoveItemFails ==
    /\ \E c \in Callers : updateLocationHistory_MoveItemFails(c)
    /\ UNCHANGED <<ops, accounts, client>>

\* deleteLocationHistory is one DELETE statement
StepDelete ==
    /\ \E id \in DOMAIN history : deleteLocationHistory(id)
    /\ UNCHANGED <<ops, accounts, calls, client>>

NextSteps ==
    \/ StepCreateValidate \/ StepCreateInsert
    \/ StepCreateMoveItem \/ StepCreateMoveItemFails
    \/ StepUpdateSelect \/ StepUpdateSet
    \/ StepUpdateMoveItem \/ StepUpdateMoveItemFails
    \/ StepDelete

SpecSteps == InitUpdate /\ [][NextSteps]_vars

\* C23: the transfer write and the item-location write are separate steps
\* with no transaction and no compensation: when the item-location step fails
\* after the row was written with status completed, the call reports the
\* error and no table changes: the row stays as stored and the item keeps its
\* location
C23_FailedMoveIsNotCompensated ==
    [][\A c \in Callers :
          (/\ calls[c].pc \in {"inserted", "set"}
           /\ calls'[c].pc = "idle"
           /\ last'.err.kind = "store_failure") =>
              /\ ~last'.ok
              /\ last'.op = calls[c].op
              /\ tables' = tables
      ]_vars

\* createLocationHistory reported a store failure: its completed row to
\* location 2 is stored and item 1 is still at location 1
C23_Witness ==
    /\ last.op = "createLocationHistory"
    /\ ~last.ok
    /\ last.err.kind = "store_failure"
    /\ last.input.to_location_id = 2
    /\ items[1].location_id = 1
    /\ \E h \in DOMAIN history :
          /\ history[h].status = "completed"
          /\ history[h].item_id = 1
          /\ history[h].to_location_id = 2

\* C24: an updateLocationHistory call that ends in an error changes no
\* item's location_id, also when a deleteLocationHistory of its row runs
\* between its read and its writes; an item is moved only for a transfer row
\* that is stored at the moment of the move
C24_FailedUpdateMovesNoItem ==
    [][\A c \in Callers :
          (/\ calls[c].op = "updateLocationHistory"
           /\ calls[c].pc # "idle"
           /\ calls'[c].pc = "idle") =>
              /\ ~last'.ok =>
                    \A i \in DOMAIN items :
                        items'[i].location_id = items[i].location_id
              /\ items' # items => calls[c].input.id \in DOMAIN history
      ]_vars

\* updateLocationHistory ended in an error after a deleteLocationHistory took
\* its row away, and item 1 is at the destination of the deleted transfer
C24_MovedForDeletedRow ==
    /\ last.op = "updateLocationHistory"
    /\ ~last.ok
    /\ last.err.kind = "type_error"
    /\ DOMAIN history = {}
    /\ items[1].location_id = 2

\* ---------------------------------------------------------------------------
\* Rows a failed batch row leaves behind
\* ---------------------------------------------------------------------------

\* the rows of the batch that did not end in the errors list
Imported(rows, errors) ==
    {i \in 1..Len(rows) : \A k \in 1..Len(errors) : errors[k].index # i}

\* C25: a batchImportItems row that ends in the errors list adds no row to
\* any table: every InventoryItem, Category and Location the call adds
\* carries the item code, category name or location name of a row that was
\* imported
C25_FailedRowAddsNothing ==
    [][last'.op = "batchImportItems" =>
          LET rows == last'.input.items
              imported == Imported(rows, last'.ret.errors)
          IN  /\ \A x \in DOMAIN items' \ DOMAIN items :
                     \E i \in imported : rows[i].item_code = items'[x].item_code
              /\ \A c \in DOMAIN categories' \ DOMAIN categories :
                     \E i \in imported : rows[i].category_name = categories'[c].name
              /\ \A l \in DOMAIN locations' \ DOMAIN locations :
                     \E i \in imported : rows[i].location_name = locations'[l].name
      ]_vars

\* a batch of one row ended with that row in the errors list, and a location
\* with the row's name is stored although no item is at it
C25_FailedRowLeftLocation ==
    /\ last.op = "batchImportItems"
    /\ Len(last.input.items) = 1
    /\ last.ret.success = 0
    /\ Len(last.ret.errors) = 1
    /\ \E l \in DOMAIN locations :
          /\ locations[l].name = last.input.items[1].location_name
          /\ \A x \in DOMAIN items : items[x].location_id # l

\* ---------------------------------------------------------------------------
\* Purchases and item stock
\* ---------------------------------------------------------------------------

\* C26: createPurchase, updatePurchase and deletePurchase leave every
\* InventoryItem row as it was: recording, changing or removing a purchase
\* never changes an item's quantity
C26_PurchasesLeaveItemsAlone ==
    [][last'.op \in {"createPurchase", "updatePurchase", "deletePurchase"} =>
          items' = items
      ]_vars

\* a purchase of an item was stored and then deleted, and the item still has
\* the quantity it was created with
C26_Witness ==
    /\ last.op = "deletePurchase"
    /\ last.ok
    /\ last.ret = TRUE
    /\ seq.purchases > 1
    /\ \E i \in DOMAIN items : items[i].quantity = 1

(***************************************************************************)
(* Users and their sessions: createUser and deleteUser of handlers/users.ts *)
(* together with the login of the authentication module, which issues the  *)
(* rows of sessions.  The session lifetime is not modelled.                *)
(***************************************************************************)
\* login: the active user with this username and password digest gets a new
\* row of sessions under a fresh token; anything else is answered with
\* success false and stores nothing
login(input, token) ==
    LET found == {u \in DOMAIN users :
                      /\ users[u].username = input.username
                      /\ users[u].password_hash = hashPassword(input.password)
                      /\ users[u].is_active}
    IN  IF found = {}
        THEN /\ Returns("login", input,
                        [success |-> FALSE, sessionId |-> Null], 0, NoRow)
             /\ UNCHANGED <<tables, seq, accounts>>
        ELSE LET u == CHOOSE x \in found : TRUE
             IN  /\ sessions' = Put(sessions, token, [user_id |-> u])
                 /\ Returns("login", input,
                            [success |-> TRUE, sessionId |-> token], u, NoRow)
                 /\ UNCHANGED <<tables, seq, users>>

\* sessions ever issued in a run
MaxSessions == 2

AccountNames == {"admin", "ana"}

AccountCreate ==
    /\ seq.users <= MaxUsers
    /\ \E name \in AccountNames, role \in userRoleEnum :
           createUser([username |-> name, password |-> "secret1", role |-> role])
    /\ UNCHANGED <<ops, calls, client>>

AccountDelete ==
    /\ \E id \in Ids(users, seq.users) : deleteUser(id)
    /\ UNCHANGED <<ops, calls, client>>

\* ops counts the sessions issued; the fresh token is the next count
AccountLogin ==
    /\ ops < MaxSessions
    /\ \E name \in AccountNames, password \in {"secret1", "secret2"} :
           login([username |-> name, password |-> password], ops + 1)
    /\ ops' = IF sessions' # sessions THEN ops + 1 ELSE ops
    /\ UNCHANGED <<calls, client>>

NextAccounts == AccountCreate \/ AccountDelete \/ AccountLogin

SpecAccounts == InitEmpty /\ [][NextAccounts]_vars

\* C27: deleteUser never removes the user whose username is 'admin': the
\* call fails with 'Cannot delete the admin user' and leaves users and
\* sessions as they were; once an admin user is stored, an admin user is
\* stored in every later state
C27_AdminIsNeverDeleted ==
    [][/\ (/\ last'.op = "deleteUser"
           /\ last'.input.id \in DOMAIN users
           /\ users[last'.input.id].username = "admin") =>
              /\ ~last'.ok
              /\ last'.err.kind = "Cannot delete the admin user"
              /\ users' = users
              /\ sessions' = sessions
       /\ (\E u \in DOMAIN users : users[u].username = "admin") =>
              \E u \in DOMAIN users' : users'[u].username = "admin"
      ]_vars

\* deleteUser of the admin user was refused while the admin user was logged
\* in, and the session is still stored
C27_Witness ==
    /\ last.op = "deleteUser"
    /\ ~last.ok
    /\ last.err.kind = "Cannot delete the admin user"
    /\ last.input.id \in DOMAIN users
    /\ users[last.input.id].username = "admin"
    /\ \E t \in DOMAIN sessions : sessions[t].user_id = last.input.id

\* C28: every session's user_id is the id of a stored user; a successful
\* deleteUser(id) has removed the user and every session of the user, and
\* no other session
C28_SessionsBelongToUsers ==
    [][/\ \A t \in DOMAIN sessions' : sessions'[t].user_id \in DOMAIN users'
       /\ (last'.op = "deleteUser" /\ last'.ok) =>
              /\ last'.input.id \notin DOMAIN users'
              /\ \A t \in DOMAIN sessions' : sessions'[t].user_id # last'.input.id
              /\ \A t \in DOMAIN sessions :
                     sessions[t].user_id # last'.input.id =>
                         t \in DOMAIN sessions' /\ sessions'[t] = sessions[t]
      ]_vars

\* two sessions were issued and a deleteUser succeeded: the session of the
\* deleted user is gone and the one of a stored user is left
C28_Witness ==
    /\ last.op = "deleteUser"
    /\ last.ok
    /\ last.input.id < seq.users
    /\ ops = 2
    /\ Cardinality(DOMAIN sessions) = 1
    /\ \A t \in DOMAIN sessions : sessions[t].user_id \in DOMAIN users

(***************************************************************************)
(* client/src/components/AuthContext.tsx: the AuthProvider.  client holds  *)
(* the user and isLoading states, the 'sessionId' entry of localStorage    *)
(* and, for each of checkSession, login and logout, whether a call is      *)
(* waiting for the server.  A callback runs up to its await in one step    *)
(* and from the server's answer to its end in another; the answers are     *)
(* whatever the server may send.  last names the step taken and keeps the  *)
(* user and sessionId the step found.                                      *)
(***************************************************************************)
\* const isAuthenticated = user !== null
isAuthenticated == client.user # Null

ClientStep(op, step, result, ret) ==
    Returns(op, [step |-> step, result |-> result], ret, 0,
            [user |-> client.user, sessionId |-> client.sessionId])

\* checkSession up to the await: nothing stored ends the callback
checkSession_Start ==
    /\ client.checkSession = "unmounted"
    /\ IF client.sessionId # Null
       THEN /\ client' = [client EXCEPT !.checkSession = "awaiting"]
            /\ ClientStep("checkSession", "called", Null, Null)
       ELSE /\ client' = [client EXCEPT !.checkSession = "done", !.isLoading = FALSE]
            /\ ClientStep("checkSession", "skipped", Null, Null)

\* validateSession answered
checkSession_Resolve(result) ==
    /\ client.checkSession = "awaiting"
    /\ client' = [client EXCEPT
                      !.user = IF result.user # Null THEN result.user ELSE @,
                      !.sessionId = IF result.user # Null THEN @ ELSE Null,
                      !.isLoading = FALSE,
                      !.checkSession = "done"]
    /\ ClientStep("checkSession", "resolved", result, Null)

\* validateSession threw
checkSession_Reject ==
    /\ client.checkSession = "awaiting"
    /\ client' = [client EXCEPT !.sessionId = Null, !.isLoading = FALSE,
                                !.checkSession = "done"]
    /\ ClientStep("checkSession", "rejected", Null, Null)

\* login up to the await
login_Start ==
    /\ client.checkSession # "unmounted"
    /\ client.login = "idle"
    /\ client' = [client EXCEPT !.isLoading = TRUE, !.login = "awaiting"]
    /\ ClientStep("login", "called", Null, Null)

\* result.success && result.sessionId && result.user
Accepted(result) ==
    result.success /\ result.sessionId # Undefined /\ result.user # Undefined

\* auth.login answered
login_Resolve(result) ==
    /\ client.login = "awaiting"
    /\ client' = [client EXCEPT
                      !.sessionId = IF Accepted(result) THEN result.sessionId ELSE @,
                      !.user = IF Accepted(result) THEN result.user ELSE @,
                      !.isLoading = FALSE,
                      !.login = "idle"]
    /\ ClientStep("login", "resolved", result, Accepted(result))

\* auth.login threw
login_Reject ==
    /\ client.login = "awaiting"
    /\ client' = [client EXCEPT !.isLoading = FALSE, !.login = "idle"]
    /\ ClientStep("login", "rejected", Null, FALSE)

\* logout up to the await: without a stored sessionId the server is not
\* called and the callback ends
logout_Start ==
    /\ client.checkSession # "unmounted"
    /\ client.logout = "idle"
    /\ IF client.sessionId # Null
       THEN /\ client' = [client EXCEPT !.logout = "awaiting"]
            /\ ClientStep("logout", "called", Null, Null)
       ELSE /\ client' = [client EXCEPT !.user = Null]
            /\ ClientStep("logout", "skipped", Null, Null)

\* auth.logout answered
logout_Resolve ==
    /\ client.logout = "awaiting"
    /\ client' = [client EXCEPT !.sessionId = Null, !.user = Null,
                                !.logout = "idle"]
    /\ ClientStep("logout", "resolved", Null, Null)

\* the catch block that only logs the error
logout_Reject_OnlyLogs ==
    /\ client.logout = "awaiting"
    /\ client' = [client EXCEPT !.logout = "idle"]
    /\ ClientStep("logout", "rejected", Null, Null)

\* auth.logout threw
logout_Reject ==
    /\ client.logout = "awaiting"
    /\ client' = [client EXCEPT !.sessionId = Null, !.user = Null,
                                !.logout = "idle"]
    /\ ClientStep("logout", "rejected", Null, Null)

(***************************************************************************)
(* The AuthProvider from its mount on, with or without a sessionId left in *)
(* localStorage by an earlier visit, and login and logout called at any    *)
(* moment                                                                  *)
(***************************************************************************)
\* login and logout calls in a run
MaxClientCalls == 3

SessionIds == {"s1", "s2"}

\* the user objects the server may send, each named by its username
ClientUsers == {"admin", "ana"}

\* what auth.login may answer within loginResponseSchema
LoginResults ==
    [success : BOOLEAN, sessionId : SessionIds \cup {Undefined},
     user : ClientUsers \cup {Undefined}]

\* what auth.validateSession may answer
ValidateResults == [user : ClientUsers \cup {Null}]

InitClient ==
    /\ categories = EmptyTable /\ locations = EmptyTable
    /\ suppliers = EmptyTable /\ items = EmptyTable
    /\ purchases = EmptyTable /\ history = EmptyTable
    /\ seq = [categories |-> 1, locations |-> 1, suppliers |-> 1,
              items |-> 1, purchases |-> 1, history |-> 1, users |-> 1]
    /\ users = EmptyTable /\ sessions = EmptyTable
    /\ last = NoCall
    /\ ops = 0
    /\ calls = NoCalls
    /\ client \in {[Unmounted EXCEPT !.sessionId = s] : s \in SessionIds \cup {Null}}

ClientMount ==
    /\ checkSession_Start
    /\ UNCHANGED <<tables, seq, accounts, ops, calls>>

ClientSessionChecked ==
    /\ \E result \in ValidateResults : checkSession_Resolve(result)
    /\ UNCHANGED <<tables, seq, accounts, ops, calls>>

ClientSessionCheckFailed ==
    /\ checkSession_Reject
    /\ UNCHANGED <<tables, seq, accounts, ops, calls>>

ClientLogin ==
    /\ ops < MaxClientCalls
    /\ login_Start
    /\ ops' = ops + 1
    /\ UNCHANGED <<tables, seq, accounts, calls>>

ClientLoginAnswered ==
    /\ \E result \in LoginResults : login_Resolve(result)
    /\ UNCHANGED <<tables, seq, accounts, ops, calls>>

ClientLoginFailed ==
    /\ login_Reject
    /\ UNCHANGED <<tables, seq, accounts, ops, calls>>

ClientLogout ==
    /\ ops < MaxClientCalls
    /\ logout_Start
    /\ ops' = ops + 1
    /\ UNCHANGED <<tables, seq, accounts, calls>>

ClientLogoutAnswered ==
    /\ logout_Resolve
    /\ UNCHANGED <<tables, seq, accounts, ops, calls>>

ClientLogoutFailed ==
    /\ logout_Reject
    /\ UNCHANGED <<tables, seq, accounts, ops, calls>>

NextClient ==
    \/ ClientMount \/ ClientSessionChecked \/ ClientSessionCheckFailed
    \/ ClientLogin \/ ClientLoginAnswered \/ ClientLoginFailed
    \/ ClientLogout \/ ClientLogoutAnswered \/ ClientLogoutFailed

SpecClient == InitClient /\ [][NextClient]_vars

\* C29: in the AuthProvider isAuthenticated is true exactly when user is
\* not null; when a logout() call ends, user is null and localStorage holds
\* no sessionId, whether the server logout succeeded, threw or was not sent;
\* a login whose answer has success false, or that throws, returns false,
\* stores no sessionId and leaves user as it was
C29_LogoutClearsAndFailedLoginKeeps ==
    [][/\ isAuthenticated' <=> client'.user # Null
       /\ (last'.op = "logout"
               /\ last'.input.step \in {"resolved", "rejected", "skipped"}) =>
              /\ client'.user = Null
              /\ client'.sessionId = Null
       /\ (/\ last'.op = "login"
           /\ \/ last'.input.step = "rejected"
              \/ last'.input.step = "resolved" /\ ~last'.input.result.success) =>
              /\ last'.ret = FALSE
              /\ client'.sessionId = client.sessionId
              /\ client'.user = client.user
      ]_vars

\* a logout of a logged-in user ended after the server call threw: the user
\* and the stored sessionId it found are gone
C29_Witness ==
    /\ last.op = "logout"
    /\ last.input.step = "rejected"
    /\ last.current.user # Null
    /\ last.current.sessionId # Null
    /\ client.user = Null
    /\ client.sessionId = Null
    /\ ~isAuthenticated

\* a login of a logged-in user was answered with success false and a
\* sessionId: it returned false and the user and sessionId are the old ones
C29_FailedLoginWitness ==
    /\ last.op = "login"
    /\ last.input.step = "resolved"
    /\ ~last.input.result.success
    /\ last.input.result.sessionId # Undefined
    /\ last.ret = FALSE
    /\ client.user # Null
    /\ client.user = last.current.user
    /\ client.sessionId = last.current.sessionId
    /\ client.sessionId # last.input.result.sessionId

====
